---- MODULE Spec2Model ----
(***************************************************************************)
(* Model of the Nifty investment tracker: the EMA-aware tracker            *)
(* (NiftyEMATracker) with its indicator and signal engine, and the value   *)
(* rule of the basic tracker (NiftyTracker).                               *)
(*                                                                         *)
(* Numbers.  Quote fields (prices, RSI, PE) are integers counting          *)
(* hundredths (24741.00 is 2474100).  Bar closes are whole prices.  EMA    *)
(* values are exact rationals: a value v is held as the natural number     *)
(* v * Scale, written as a little-endian sequence of digits in base Base,  *)
(* so that the divisions of calculateEMA are exact.  JavaScript's null and *)
(* undefined are the empty option <<>> (an option is <<>> or <<value>>),   *)
(* and NoNum for a missing EMA value.                                      *)
(***************************************************************************)
EXTENDS Integers, Sequences, FiniteSets, TLC

VARIABLES
    market,               \* the bars the data source holds, oldest first
    today,                \* day number of the current date
    FALLBACK_HISTORICAL,  \* this.FALLBACK_HISTORICAL, generated at construction
    data,                 \* this.data: <<>> (null) or << Quote Snapshot >>
    historicalData,       \* this.historicalData
    emaData,              \* this.emaData: [ema20, ema50, crossovers]
    storage,              \* localStorage: key -> <<>> or << [data, version] >>
    pc,                   \* position: "new", "fetching", "idle", "threw"; "sw-new", "sw-active"
                          \* for the service worker; "page" for a page
                          \* rendering adopted data; "call", "done" for a direct call
    net,                  \* what the data source answers in the running cycle
    pending,              \* fetches of the running cycle that have not settled
    cycles,               \* refresh cycles started so far
    outcome,              \* how the last detectCrossovers call ended
    ui,                   \* what updateUI last published: <<>> or << Signal Result >>
    badge,                \* the signal badge of the basic tracker's page
    refreshDisabled,      \* refreshBtn.disabled
    emaIn,                \* input of a direct calculateEMA call: [prices, period]
    emaOut,               \* its result
    indIn,                \* input of a direct call of an indicator of the basic tracker:
                          \* [fn, prices, period]
    indOut,               \* its result, a fraction << numerator, denominator >>
    payload,              \* the answer of the data source to a directly called quote fetch
    clock,                \* Date.now(): milliseconds since Monday 00:00 of the running week,
                          \* in the time zone of the exchange
    refreshInterval,      \* this.refreshInterval: 0 (null) or the period of the running timer
    isOnline,             \* this.isOnline
    visibilityState,      \* document.visibilityState
    timers,               \* the interval timers that are live: period -> how many
    called,               \* a direct call of a method of the EMA tracker: <<>> or
                          \* << [fn, result] >>
    staticCache,          \* service worker: the cache STATIC_CACHE_NAME, asset -> <<>> or
                          \* << cached response >>
    apiCache,             \* service worker: the cache API_CACHE_NAME for the chart request,
                          \* <<>> or << cached response >>
    response,             \* service worker: the last fetch event, <<>> or
                          \* << [request, answer, result, held, at] >>: how the network
                          \* answered, what the handler resolved to, what the cache held
                          \* before, and when
    earlier               \* what an earlier run of the page ended with: <<>> or
                          \* << [net, FALLBACK_HISTORICAL, data, historicalData, emaData, ui] >>

vars == << market, today, FALLBACK_HISTORICAL, data, historicalData, emaData, storage,
           pc, net, pending, cycles, outcome, ui, badge, refreshDisabled,
           emaIn, emaOut, indIn, indOut, payload,
           clock, refreshInterval, isOnline, visibilityState, timers,
           called, staticCache, apiCache, response, earlier >>

\* the service worker's caches and its last answer
worker == << staticCache, apiCache, response >>

\* the variables of direct calls of the basic tracker's indicators and of a quote fetch
indicatorCall == << indIn, indOut, payload >>

\* the clock, the refresh timer and the state of the browser
browser == << clock, refreshInterval, isOnline, visibilityState, timers >>

----------------------------------------------------------------------------
(* Bounds of the model *)

MaxBars == 100      \* longest bar history the data source serves
MaxCycles == 2      \* refresh cycles per behaviour (init, then manual refreshes)
ShortBars == 40     \* bars left when the source serves a history with missing closes
MaxDirect == 7      \* longest price sequence of a direct small-period calculateEMA call
MaxRsiLen == 5      \* longest price sequence of a direct small-period calculateRSI call

----------------------------------------------------------------------------
(* Thresholds and fallbacks of the constructor *)

RSI_OVERSOLD == 30
RSI_OVERBOUGHT == 70
PE_ATTRACTIVE == 21
PE_EXPENSIVE == 25
CORRECTION_THRESHOLD == 10
ALL_TIME_HIGH == 2627735
EMA_PERIOD_20 == 20
EMA_PERIOD_50 == 50

FALLBACK_DATA ==
    [ current_price |-> 2474100, previous_close |-> 2473430, open |-> 2481885,
      high_52w |-> 2627735, low_52w |-> 2174365, all_time_high |-> 2627735,
      pe_ratio |-> 2173, rsi |-> 5321, dma_200 |-> 2463100,
      ema_20 |-> 2475025, ema_50 |-> 2468015, ema_trend |-> "BULLISH",
      last_crossover |-> "2024-08-15", crossover_type |-> "BULLISH_CROSS",
      days_since_cross |-> 22 ]

Hundredths(x) == x * 100

Max(a, b) == IF a > b THEN a ELSE b

\* values of a quote field that are not finite numbers (finite ones are >= 0)
Undefined == 0 - 2
NegInfinity == 0 - 3
PosInfinity == 0 - 4
Finite(v) == v >= 0

----------------------------------------------------------------------------
(* Exact numbers: naturals as little-endian digit sequences, zero is <<>> *)

Base == 1000 * 1000

RECURSIVE MulCarry(_, _, _, _)
MulCarry(x, c, i, carry) ==
    IF i > Len(x)
    THEN IF carry = 0 THEN <<>>
         ELSE IF carry < Base THEN << carry >> ELSE << carry % Base, carry \div Base >>
    ELSE LET t == x[i] * c + carry
         IN << t % Base >> \o MulCarry(x, c, i + 1, t \div Base)

\* x * c for 0 <= c <= 2000 (a digit times c stays below 2^31)
MulSmall(x, c) == IF c = 0 \/ Len(x) = 0 THEN <<>> ELSE MulCarry(x, c, 1, 0)

RECURSIVE AddCarry(_, _, _, _)
AddCarry(x, y, i, carry) ==
    IF i > Len(x) /\ i > Len(y)
    THEN IF carry = 0 THEN <<>> ELSE << carry >>
    ELSE LET t == (IF i <= Len(x) THEN x[i] ELSE 0) + (IF i <= Len(y) THEN y[i] ELSE 0) + carry
         IN << t % Base >> \o AddCarry(x, y, i + 1, t \div Base)

NumAdd(x, y) == IF Len(x) = 0 THEN y ELSE IF Len(y) = 0 THEN x ELSE AddCarry(x, y, 1, 0)

\* x * c for any natural c
RECURSIVE NumMul(_, _)
NumMul(x, c) ==
    IF c <= 2000 THEN MulSmall(x, c)
    ELSE NumAdd(MulSmall(x, c % 1000), MulSmall(NumMul(x, c \div 1000), 1000))

\* quotient digits of positions i..1, most significant first
RECURSIVE DivRem(_, _, _, _)
DivRem(x, c, i, r) ==
    IF i = 0 THEN <<>>
    ELSE LET t == r * Base + x[i]
         IN << t \div c >> \o DivRem(x, c, i - 1, t % c)

\* x \div c for 1 <= c <= 2000
NumDiv(x, c) ==
    IF Len(x) = 0 THEN <<>>
    ELSE LET q == DivRem(x, c, Len(x), 0)
             n == IF q[1] = 0 THEN Len(q) - 1 ELSE Len(q)
         IN [i \in 1..n |-> q[Len(q) + 1 - i]]

\* -1, 0, 1 as x is below, equal to, above y
NumCmp(x, y) ==
    IF Len(x) < Len(y) THEN -1
    ELSE IF Len(x) > Len(y) THEN 1
    ELSE IF x = y THEN 0
    ELSE LET i == CHOOSE i \in 1..Len(x) : x[i] # y[i] /\ \A j \in (i + 1)..Len(x) : x[j] = y[j]
         IN IF x[i] < y[i] THEN -1 ELSE 1

\* x * b^e
RECURSIVE NumPow(_, _, _)
NumPow(x, b, e) ==
    IF e = 0 THEN x
    ELSE IF e = 1 THEN MulSmall(x, b)
    ELSE LET half == NumPow(x, b, e \div 2)
         IN IF half = <<>> THEN <<>> ELSE NumPow(half, b, e - e \div 2)

\* The unit: every EMA value of a history of at most MaxBars bars for the periods
\* 20 and 50, and of at most MaxDirect + 1 prices for the periods 1, 2 and 6, is a
\* whole number of 1/Scale.
Scale ==
    MulSmall(MulSmall(
        NumPow(NumPow(<< 1 >>, EMA_PERIOD_20 + 1, MaxBars - EMA_PERIOD_20),
               EMA_PERIOD_50 + 1, MaxBars - EMA_PERIOD_50),
        EMA_PERIOD_20), EMA_PERIOD_50)

Scale100 == NumDiv(Scale, 100)

NumOfPrice(p) == NumMul(Scale, p)            \* a whole price as a number
NumOfHundredths(h) == NumMul(Scale100, h)    \* a quote field as a number

NoNum == << -1 >>                            \* undefined / null where a number is expected
Falsy(v) == v = NoNum \/ v = <<>>            \* !v : undefined, null and 0 are falsy

\* JavaScript array read a[i], i counted from 0
At(a, i) == IF i >= 0 /\ i < Len(a) THEN a[i + 1] ELSE NoNum

----------------------------------------------------------------------------
(* Moving average engine *)

RECURSIVE SumRange(_, _, _)
SumRange(prices, lo, hi) ==
    IF lo > hi THEN 0
    ELSE IF lo = hi THEN prices[lo]
    ELSE LET mid == (lo + hi) \div 2
         IN SumRange(prices, lo, mid) + SumRange(prices, mid + 1, hi)

\* a seed that leaves the last price of the window out of the sum
SeedSMAShort(prices, period, unit) == NumDiv(NumMul(unit, SumRange(prices, 1, period - 1)), period)

\* sma = (prices[0] + ... + prices[period-1]) / period, in units of 1/unit
SeedSMA(prices, period, unit) == NumDiv(NumMul(unit, SumRange(prices, 1, period)), period)

\* a step with k = 1 / (period + 1)
EmaNextHalf(previous, price, period, unit) ==
    NumDiv(NumAdd(NumMul(unit, price), MulSmall(previous, period)), period + 1)

\* ema = prices[i] * k + previous * (1 - k), k = 2 / (period + 1)
EmaNext(previous, price, period, unit) ==
    NumDiv(NumAdd(NumMul(unit, 2 * price), MulSmall(previous, period - 1)), period + 1)

\* the values the loop pushes for prices[lo-1 .. hi-1], after the value `previous`
RECURSIVE EmaLoop(_, _, _, _, _, _)
EmaLoop(prices, period, previous, lo, hi, unit) ==
    IF lo > hi THEN <<>>
    ELSE IF lo = hi THEN << EmaNext(previous, prices[lo], period, unit) >>
    ELSE LET mid == (lo + hi) \div 2
             left == EmaLoop(prices, period, previous, lo, mid, unit)
         IN left \o EmaLoop(prices, period, left[Len(left)], mid + 1, hi, unit)

EmaValues(prices, period, unit) ==
    IF Len(prices) < period THEN <<>>
    ELSE LET sma == SeedSMA(prices, period, unit)
         IN << sma >> \o EmaLoop(prices, period, sma, period + 1, Len(prices), unit)

calculateEMA(prices, period) == EmaValues(prices, period, Scale)

Closes(bars) == [i \in 1..Len(bars) |-> bars[i].close]

\* calculateEMAs: the new emaData, and whether it was cached
EMAsComputed(hist) == Len(hist) >= 50
calculateEMAs(ema, hist) ==
    IF ~EMAsComputed(hist) THEN ema
    ELSE [ ema EXCEPT !.ema20 = calculateEMA(Closes(hist), EMA_PERIOD_20),
                      !.ema50 = calculateEMA(Closes(hist), EMA_PERIOD_50) ]

----------------------------------------------------------------------------
(* Crossover detector.  i is the loop variable of detectCrossovers. *)

startIndex == Max(EMA_PERIOD_50 - EMA_PERIOD_20, 1)

Current20Index(i) == i
Current50Index(i) == i - startIndex + EMA_PERIOD_20 - 1
Prev20Index(i) == i - 1
Prev50Index(i) == i - startIndex + EMA_PERIOD_20 - 2

Current20(ema, i) == At(ema.ema20, Current20Index(i))
Current50(ema, i) == At(ema.ema50, Current50Index(i))
Prev20(ema, i) == At(ema.ema20, Prev20Index(i))
Prev50(ema, i) == At(ema.ema50, Prev50Index(i))

\* if (!current20 || !current50 || !prev20 || !prev50) continue;
Skips(ema, i) ==
    Falsy(Current20(ema, i)) \/ Falsy(Current50(ema, i)) \/ Falsy(Prev20(ema, i)) \/ Falsy(Prev50(ema, i))

\* a detector whose previous values must differ strictly
CrossoverTypeStrict(ema, i) ==
    IF Skips(ema, i) THEN ""
    ELSE IF NumCmp(Prev20(ema, i), Prev50(ema, i)) < 0 /\ NumCmp(Current20(ema, i), Current50(ema, i)) > 0
         THEN "BULLISH_CROSS"
    ELSE IF NumCmp(Prev20(ema, i), Prev50(ema, i)) > 0 /\ NumCmp(Current20(ema, i), Current50(ema, i)) < 0
         THEN "BEARISH_CROSS"
    ELSE ""

\* the crossoverType of step i: "" is null
CrossoverType(ema, i) ==
    IF Skips(ema, i) THEN ""
    ELSE IF NumCmp(Prev20(ema, i), Prev50(ema, i)) <= 0 /\ NumCmp(Current20(ema, i), Current50(ema, i)) > 0
         THEN "BULLISH_CROSS"
    ELSE IF NumCmp(Prev20(ema, i), Prev50(ema, i)) >= 0 /\ NumCmp(Current20(ema, i), Current50(ema, i)) < 0
         THEN "BEARISH_CROSS"
    ELSE ""

LoopIndices(ema) == startIndex .. (Len(ema.ema20) - 1)

\* the event pushed at step i (read only where historicalData[i] exists)
EventDateIndex(i) == i
CrossoverEvent(ema, hist, i) ==
    [ date |-> hist[EventDateIndex(i) + 1].date, type |-> CrossoverType(ema, i),
      price |-> hist[EventDateIndex(i) + 1].close,
      ema20 |-> Current20(ema, i), ema50 |-> Current50(ema, i) ]

EmittingIndices(ema) == { i \in LoopIndices(ema) : CrossoverType(ema, i) # "" }

\* the steps of the loop that push an event, in loop order
RECURSIVE Ascending(_)
Ascending(S) == IF S = {} THEN <<>>
                ELSE LET m == CHOOSE m \in S : \A o \in S : m <= o
                     IN << m >> \o Ascending(S \ {m})

DetectReturnsEarly(ema) == Len(ema.ema20) < 2 \/ Len(ema.ema50) < 2

\* this.historicalData[i].date of a missing bar raises a TypeError
DetectThrows(ema, hist) ==
    ~DetectReturnsEarly(ema) /\ \E i \in EmittingIndices(ema) : EventDateIndex(i) >= Len(hist)

\* how the call ends
DetectOutcome(ema, hist) ==
    IF DetectReturnsEarly(ema) THEN "returned"
    ELSE IF DetectThrows(ema, hist) THEN "threw"
    ELSE "scanned"

\* emaData after detectCrossovers
detectCrossovers(ema, hist) ==
    IF DetectOutcome(ema, hist) # "scanned" THEN ema
    ELSE LET steps == Ascending(EmittingIndices(ema))
         IN [ ema EXCEPT !.crossovers = [k \in 1..Len(steps) |-> CrossoverEvent(ema, hist, steps[k])] ]

----------------------------------------------------------------------------
(* Trend resolver *)

\* a resolver for which equal values are bullish
TrendOfTie(current20, current50) == IF NumCmp(current20, current50) >= 0 THEN "BULLISH" ELSE "BEARISH"

TrendOf(current20, current50) == IF NumCmp(current20, current50) > 0 THEN "BULLISH" ELSE "BEARISH"

getCurrentEMATrend(ema, now) ==
    IF Len(ema.ema20) = 0 \/ Len(ema.ema50) = 0
    THEN [ trend |-> "UNKNOWN", ema20 |-> NoNum, ema50 |-> NoNum,
           lastCrossover |-> <<>>, daysSinceCross |-> <<>> ]
    ELSE LET current20 == ema.ema20[Len(ema.ema20)]
             current50 == ema.ema50[Len(ema.ema50)]
             lastCrossover == IF Len(ema.crossovers) > 0
                              THEN << ema.crossovers[Len(ema.crossovers)] >> ELSE <<>>
         IN [ trend |-> TrendOf(current20, current50),
              ema20 |-> current20, ema50 |-> current50,
              lastCrossover |-> lastCrossover,
              daysSinceCross |-> IF lastCrossover # <<>> THEN << now - lastCrossover[1].date >> ELSE <<>> ]

----------------------------------------------------------------------------
(* Signal synthesizer.  A condition is a JavaScript value: "true", "false" or "null". *)

JsBool(b) == IF b THEN "true" ELSE "false"
Truthy(v) == v = "true"

\* a percentage as the fraction << numerator, denominator >>, denominator > 0
calculateCorrection(d) == << (d.current_price - d.all_time_high) * 100, d.all_time_high >>
PercentLe(r, k) == r[1] <= k * r[2]
PercentGe(r, k) == r[1] >= k * r[2]
Abs(r) == << IF r[1] < 0 THEN 0 - r[1] ELSE r[1], r[2] >>

\* correction <= -this.THRESHOLDS.CORRECTION_THRESHOLD
ValueCorrectionMet(d) == PercentLe(calculateCorrection(d), 0 - CORRECTION_THRESHOLD)

valueConditions(d) ==
    [ correction |-> JsBool(ValueCorrectionMet(d)),
      rsi |-> JsBool(d.rsi < Hundredths(RSI_OVERSOLD)),
      pe |-> JsBool(d.pe_ratio < Hundredths(PE_ATTRACTIVE)) ]

Every(conditions) == \A name \in DOMAIN conditions : Truthy(conditions[name])
MetCount(conditions) == Cardinality({ name \in DOMAIN conditions : Truthy(conditions[name]) })

valueSignal(d) == IF Every(valueConditions(d)) THEN "BUY" ELSE "WAIT"

\* price > ema, where a null ema converts to 0
PriceAbove(price, ema) ==
    IF ema = NoNum THEN price > 0 ELSE NumCmp(NumOfHundredths(price), ema) > 0

\* option < k, where null converts to 0
OptionLess(option, k) == IF option = <<>> THEN 0 < k ELSE option[1] < k

\* lastCrossover && lastCrossover.type === 'BULLISH_CROSS' && daysSinceCross < 30
RecentCross(emaTrend) ==
    IF emaTrend.lastCrossover = <<>> THEN "null"
    ELSE IF emaTrend.lastCrossover[1].type # "BULLISH_CROSS" THEN "false"
    ELSE JsBool(OptionLess(emaTrend.daysSinceCross, 30))

momentumConditions(d, emaTrend) ==
    [ bullishTrend |-> JsBool(emaTrend.trend = "BULLISH"),
      recentCross |-> RecentCross(emaTrend),
      priceAboveEMAs |-> JsBool(PriceAbove(d.current_price, emaTrend.ema20)
                                /\ PriceAbove(d.current_price, emaTrend.ema50)) ]

\* a momentum signal that also wants the price above both EMAs
momentumSignalPriced(d, emaTrend) ==
    IF Truthy(momentumConditions(d, emaTrend).bullishTrend)
       /\ Truthy(momentumConditions(d, emaTrend).priceAboveEMAs) THEN "BUY"
    ELSE IF emaTrend.trend = "BEARISH" THEN "AVOID" ELSE "WAIT"

momentumSignal(d, emaTrend) ==
    IF Truthy(momentumConditions(d, emaTrend).bullishTrend) THEN "BUY"
    ELSE IF emaTrend.trend = "BEARISH" THEN "AVOID" ELSE "WAIT"

\* a synthesizer that checks AVOID before the single BUY
combinedSignalAvoidFirst(value, momentum) ==
    IF value = "BUY" /\ momentum = "BUY" THEN "STRONG BUY"
    ELSE IF momentum = "AVOID" THEN "AVOID"
    ELSE IF value = "BUY" \/ momentum = "BUY" THEN "BUY"
    ELSE "WAIT"

combinedSignal(value, momentum) ==
    IF value = "BUY" /\ momentum = "BUY" THEN "STRONG BUY"
    ELSE IF value = "BUY" \/ momentum = "BUY" THEN "BUY"
    ELSE IF momentum = "AVOID" THEN "AVOID"
    ELSE "WAIT"

getValueStrategyDescription(conditions) ==
    IF MetCount(conditions) = 3 THEN "All value conditions met - Strong buy opportunity"
    ELSE IF MetCount(conditions) = 2 THEN "Most value conditions met - Consider buying"
    ELSE IF MetCount(conditions) = 1 THEN "Few conditions met - Wait for better entry"
    ELSE "No value conditions met - Avoid buying"

getMomentumStrategyDescription(trend) ==
    IF trend.trend = "BULLISH"
    THEN IF OptionLess(trend.daysSinceCross, 10) THEN "Fresh bullish crossover - Strong momentum"
         ELSE IF OptionLess(trend.daysSinceCross, 30) THEN "Bullish trend continues - Good momentum"
         ELSE "Extended bullish trend - Monitor for reversal"
    ELSE IF trend.trend = "BEARISH" THEN "Bearish trend - Avoid new positions"
    ELSE "Trend unclear - Wait for confirmation"

getCombinedDescription(signal) ==
    IF signal = "STRONG BUY" THEN "Both strategies bullish - Excellent opportunity"
    ELSE IF signal = "BUY" THEN "One strategy bullish - Good opportunity"
    ELSE IF signal = "AVOID" THEN "Bearish momentum - Avoid new positions"
    ELSE "Mixed signals - Wait for clarity"

\* d is the Quote Snapshot (this.data, not null)
calculateInvestmentSignals(d, ema, now) ==
    LET emaTrend == getCurrentEMATrend(ema, now)
    IN [ value |-> [ signal |-> valueSignal(d), conditions |-> valueConditions(d),
                     description |-> getValueStrategyDescription(valueConditions(d)) ],
         momentum |-> [ signal |-> momentumSignal(d, emaTrend),
                        conditions |-> momentumConditions(d, emaTrend),
                        description |-> getMomentumStrategyDescription(emaTrend),
                        trend |-> emaTrend ],
         combined |-> [ signal |-> combinedSignal(valueSignal(d), momentumSignal(d, emaTrend)),
                        description |-> getCombinedDescription(
                            combinedSignal(valueSignal(d), momentumSignal(d, emaTrend))) ] ]

\* The basic tracker: updateInvestmentSignal(correctionPercent), the text of the badge
\* a comparison with NaN is false
BasicCorrectionMet(d) ==
    Finite(d.current_price) /\ PercentGe(Abs(calculateCorrection(d)), CORRECTION_THRESHOLD)
BasicSignalBadge(d) ==
    IF BasicCorrectionMet(d) /\ d.rsi < Hundredths(RSI_OVERSOLD) /\ d.pe_ratio < Hundredths(PE_ATTRACTIVE)
    THEN "BUY SIGNAL" ELSE "WAIT"

\* updateUI of the EMA tracker: the Signal Result the page shows; nothing changes
\* while this.data is null
updateUI(shown, d, ema, now) ==
    IF d = <<>> THEN shown ELSE << calculateInvestmentSignals(d[1], ema, now) >>

\* updateUI of the basic tracker: the badge the page shows
BasicUpdateUI(shown, d) == IF d = <<>> THEN shown ELSE BasicSignalBadge(d[1])

----------------------------------------------------------------------------
(* Indicators of the basic tracker.  Prices are whole numbers; a result is the exact
   fraction << numerator, denominator >> with a positive denominator. *)

RSI_PERIOD == 14
DMA_WINDOW == 200

RatOfHundredths(h) == << h, 100 >>
RatEq(r, q) == r[1] * q[2] = q[1] * r[2]
RatLe(r, q) == r[1] * q[2] <= q[1] * r[2]
RatDiv(r, q) == << r[1] * q[2], r[2] * q[1] >>        \* q > 0
RatSub(r, q) == << r[1] * q[2] - q[1] * r[2], r[2] * q[2] >>
RatAdd(r, q) == << r[1] * q[2] + q[1] * r[2], r[2] * q[2] >>

\* xs.reduce((acc, x) => acc + x, 0)
SumSeq(xs) == SumRange(xs, 1, Len(xs))

\* array.slice(-k)
SliceLast(xs, k) == IF Len(xs) <= k THEN xs ELSE SubSeq(xs, Len(xs) - k + 1, Len(xs))

\* a baseline over the first 200 prices
calculate200DMAFirst(prices) ==
    IF Len(prices) < DMA_WINDOW THEN RatOfHundredths(FALLBACK_DATA.dma_200)
    ELSE << SumSeq(SubSeq(prices, 1, DMA_WINDOW)), DMA_WINDOW >>

\* calculate200DMA(prices)
calculate200DMA(prices) ==
    IF Len(prices) < DMA_WINDOW THEN RatOfHundredths(FALLBACK_DATA.dma_200)
    ELSE << SumSeq(SliceLast(prices, DMA_WINDOW)), Len(SliceLast(prices, DMA_WINDOW)) >>

\* changes.push(prices[i] - prices[i - 1])
Changes(prices) == [ i \in 1..(Len(prices) - 1) |-> prices[i + 1] - prices[i] ]

\* a window that takes the first changes instead of the last
RecentChangesFirst(prices, period) == SubSeq(Changes(prices), 1, period)

\* changes.slice(-period)
RecentChanges(prices, period) == SliceLast(Changes(prices), period)

Gains(changes) == SelectSeq(changes, LAMBDA change : change > 0)
Losses(changes) == [ i \in 1..Len(SelectSeq(changes, LAMBDA change : change < 0)) |->
                       0 - SelectSeq(changes, LAMBDA change : change < 0)[i] ]

\* xs.length ? sum / period : 0
AverageOver(xs, period) == IF Len(xs) # 0 THEN << SumSeq(xs), period >> ELSE << 0, 1 >>

\* an RSI that divides by rs instead of 1 + rs
calculateRSIUnshifted(prices, period) ==
    IF Len(prices) < period + 1 THEN RatOfHundredths(FALLBACK_DATA.rsi)
    ELSE LET avgGain == AverageOver(Gains(RecentChanges(prices, period)), period)
             avgLoss == AverageOver(Losses(RecentChanges(prices, period)), period)
         IN IF avgLoss[1] = 0 THEN << 100, 1 >>
            ELSE IF avgGain[1] = 0 THEN << 0 - 100, 1 >>
            ELSE RatSub(<< 100, 1 >>, RatDiv(<< 100, 1 >>, RatDiv(avgGain, avgLoss)))

\* calculateRSI(prices, period = 14)
calculateRSI(prices, period) ==
    IF Len(prices) < period + 1 THEN RatOfHundredths(FALLBACK_DATA.rsi)
    ELSE LET avgGain == AverageOver(Gains(RecentChanges(prices, period)), period)
             avgLoss == AverageOver(Losses(RecentChanges(prices, period)), period)
         IN IF avgLoss[1] = 0 THEN << 100, 1 >>
            ELSE LET rs == RatDiv(avgGain, avgLoss)
                 IN RatSub(<< 100, 1 >>, RatDiv(<< 100, 1 >>, RatAdd(<< 1, 1 >>, rs)))

BASIC_FALLBACK_DATA ==
    [ current_price |-> 2474100, previous_close |-> 2473430, open |-> 2481885,
      high_52w |-> 2627735, low_52w |-> 2174365, all_time_high |-> 2627735,
      pe_ratio |-> 2173, rsi |-> 5321, dma_200 |-> 2463100 ]

\* a fraction in hundredths, rounded down
HundredthsOf(r) == (r[1] * 100) \div r[2]

\* useFallbackData of the basic tracker
BasicUseFallbackData(now) ==
    [ f \in DOMAIN BASIC_FALLBACK_DATA \cup {"last_updated"} |->
        IF f = "last_updated" THEN now ELSE BASIC_FALLBACK_DATA[f] ]

\* a[i] of a price array in hundredths, i counted from 0; null stays null
PriceAt(a, i) ==
    IF i < 0 \/ i >= Len(a) THEN Undefined
    ELSE IF a[i + 1] < 0 THEN a[i + 1] ELSE a[i + 1] * 100

\* a || b where a is a meta field
MetaOr(a, b) == IF a = 0 \/ a < 0 THEN b ELSE a

RECURSIVE MaxOf(_, _, _)
MaxOf(xs, lo, hi) ==
    IF lo = hi THEN xs[lo]
    ELSE LET mid == (lo + hi) \div 2
             l == MaxOf(xs, lo, mid)
             r == MaxOf(xs, mid + 1, hi)
         IN IF l >= r THEN l ELSE r

RECURSIVE MinOf(_, _, _)
MinOf(xs, lo, hi) ==
    IF lo = hi THEN xs[lo]
    ELSE LET mid == (lo + hi) \div 2
             l == MinOf(xs, lo, mid)
             r == MinOf(xs, mid + 1, hi)
         IN IF l <= r THEN l ELSE r

\* Math.max(...highs), Math.min(...lows) in hundredths
MathMax(xs) == IF xs = <<>> THEN NegInfinity ELSE MaxOf(xs, 1, Len(xs)) * 100
MathMin(xs) == IF xs = <<>> THEN PosInfinity ELSE MinOf(xs, 1, Len(xs)) * 100

\* array.filter(x => x !== null)
NotNull(xs) == SelectSeq(xs, LAMBDA x : x >= 0)

\* the reads of processYahooData that raise a TypeError, caught by its try
YahooDataThrows(p) ==
    \/ p.result = <<>>
    \/ p.result[1].meta = <<>>
    \/ p.result[1].quote = <<>>
    \/ p.result[1].quote[1].close = <<>>
    \/ p.result[1].quote[1].high = <<>>
    \/ p.result[1].quote[1].low = <<>>
    \/ (p.result[1].quote[1].open = <<>>
        /\ MetaOr(p.result[1].meta[1].regularMarketOpen, 0) = 0)

\* processYahooData(yahooData): the Quote Snapshot it leaves in this.data
processYahooData(p, now) ==
    IF YahooDataThrows(p) THEN BasicUseFallbackData(now)
    ELSE LET meta == p.result[1].meta[1]
             quote == p.result[1].quote[1]
             prices == NotNull(quote.close[1])
         IN [ current_price |-> MetaOr(meta.regularMarketPrice, PriceAt(prices, Len(prices) - 1)),
              previous_close |-> MetaOr(meta.previousClose, PriceAt(prices, Len(prices) - 2)),
              open |-> IF MetaOr(meta.regularMarketOpen, 0) # 0 THEN meta.regularMarketOpen
                       ELSE PriceAt(quote.open[1], Len(quote.open[1]) - 1),
              high_52w |-> MathMax(NotNull(quote.high[1])),
              low_52w |-> MathMin(NotNull(quote.low[1])),
              all_time_high |-> ALL_TIME_HIGH,
              pe_ratio |-> BASIC_FALLBACK_DATA.pe_ratio,
              rsi |-> HundredthsOf(calculateRSI(prices, RSI_PERIOD)),
              dma_200 |-> HundredthsOf(calculate200DMA(prices)),
              last_updated |-> now ]

\* fetchNiftyData of the basic tracker on the answer p
BasicQuoteOfAnswer(p, now) ==
    IF p.status # "ok" THEN BasicUseFallbackData(now) ELSE processYahooData(p, now)

----------------------------------------------------------------------------
(* The data source and the browser *)

FALLBACK_DAYS == 100
basePrice == 24000
NullClose == -1

Bar(d, c) == [ date |-> d, close |-> c ]

\* n daily bars closing at a up to day s and at b afterwards
StepHistory(n, s, a, b) == [ i \in 1..n |-> Bar(i, IF i <= s THEN a ELSE b) ]

\* n daily bars closing at a, but at b on the w days after day s
PulseHistory(n, s, w, a, b) == [ i \in 1..n |-> Bar(i, IF i > s /\ i <= s + w THEN b ELSE a) ]

\* a rising and a falling market of MaxBars bars, one with a five-day rally, a rising
\* one of 60 bars whose step is 5 bars old, and 60 bars of constant close
Markets ==
    { StepHistory(MaxBars, 70, 100, 110), StepHistory(MaxBars, 70, 110, 100),
      PulseHistory(MaxBars, 68, 5, 100, 110),
      StepHistory(60, 55, 100, 110), StepHistory(60, 60, 100, 100) }

\* generateFallbackHistoricalData: bar i (from 0) is dated now - 100 + i and closes at
\* basePrice * (1 + (random + trend) * i / 10); the model draws histories that stay at
\* basePrice up to bar s and move by 1% afterwards.
FallbackHistory(now, s, pct) ==
    [ i \in 1..FALLBACK_DAYS |->
        Bar(now - FALLBACK_DAYS + (i - 1),
            IF i <= s THEN basePrice ELSE basePrice + (basePrice * pct) \div 100) ]

Fallbacks(now) == { FallbackHistory(now, 70, 1) }

\* two of the histories Math.random() can produce: one that rises and one that falls
\* by 1% after bar 70
FallbackDraws(now) == { FallbackHistory(now, 70, 1), FallbackHistory(now, 70, 0 - 1) }

\* what the source answers during a cycle: "ok" the bars it holds, "gappy" the bars
\* with a null close on all but the last ShortBars, "malformed" a payload without
\* chart.result, "down" no answer or a status that is not ok
Nets == { "ok", "partial", "gappy", "malformed", "down" }

SourceBars(kind) ==
    [ i \in 1..Len(market) |->
        IF kind = "gappy" /\ i <= Len(market) - ShortBars
        THEN Bar(market[i].date, NullClose) ELSE market[i] ]

\* chart.result[0].meta of the quote answer, in hundredths
SourceMeta ==
    [ regularMarketPrice |-> Hundredths(market[Len(market)].close),
      previousClose |-> Hundredths(market[Len(market) - 1].close),
      regularMarketOpen |-> Hundredths(market[Len(market) - 1].close),
      fiftyTwoWeekHigh |-> Hundredths(Max(market[1].close, market[Len(market)].close)),
      fiftyTwoWeekLow |-> Hundredths(0 - Max(0 - market[1].close, 0 - market[Len(market)].close)) ]

\* the meta of the answer of kind: a partial answer lacks fiftyTwoWeekHigh
SourceMetaOf(kind) ==
    IF kind = "partial" THEN [ SourceMeta EXCEPT !.fiftyTwoWeekHigh = Undefined ] ELSE SourceMeta

\* nifty_data is the key 'nifty-data' of the basic tracker
NoStorage == [ nifty_current |-> <<>>, nifty_historical |-> <<>>, nifty_ema |-> <<>>, nifty_data |-> <<>> ]
NoEma == [ ema20 |-> <<>>, ema50 |-> <<>>, crossovers |-> <<>> ]

\* no answer held
NoPayload == [ tracker |-> "none", status |-> "ok", result |-> <<>> ]

\* no direct indicator call
NoCall == [ fn |-> "none", prices |-> <<>>, period |-> RSI_PERIOD ]

\* Date.now() readings
Minute == 60 * 1000
Day == 24 * 60 * Minute

\* MARKET_HOURS, in minutes of the day
startMinutes == 9 * 60 + 15
endMinutes == 15 * 60 + 30

\* isMarketHours() at the reading now of the clock
dayOfWeek(now) == ((now \div Day) + 1) % 7
currentMinutes(now) == (now \div Minute) % (24 * 60)
isMarketHours(now) ==
    /\ dayOfWeek(now) >= 1 /\ dayOfWeek(now) <= 5
    /\ currentMinutes(now) >= startMinutes /\ currentMinutes(now) <= endMinutes

\* Monday 10:00
RestClock == 10 * 60 * Minute

\* periods of the refresh timer, in milliseconds
MARKET_PERIOD == 30000
AFTER_HOURS_PERIOD == 300000

TimerPeriods == { MARKET_PERIOD, AFTER_HOURS_PERIOD }
NoTimers == [ p \in TimerPeriods |-> 0 ]

\* the live timers after clearAutoRefresh(): clearInterval(this.refreshInterval) when
\* a handle is held.  held is the period of the timer the handle names, 0 for null.
clearAutoRefresh(live, held) == IF held # 0 THEN [ live EXCEPT ![held] = @ - 1 ] ELSE live

\* the live timers after setInterval(callback, period)
setInterval(live, period) == [ live EXCEPT ![period] = @ + 1 ]

\* a setupAutoRefresh() that does not clear first
TimersAfterSetupUncleared(live, held, period) ==
    IF period = 0 THEN clearAutoRefresh(live, held) ELSE setInterval(live, period)

\* the live timers after setupAutoRefresh() schedules a timer of the given period
\* (0: it schedules none)
TimersAfterSetup(live, held, period) ==
    IF period = 0 THEN clearAutoRefresh(live, held)
    ELSE setInterval(clearAutoRefresh(live, held), period)

\* a running page that is online and visible, no timer set
\* the service worker before its installation: both caches empty, no request answered
STATIC_ASSETS == { "./", "./index.html", "./style.css", "./app.js", "./manifest.json" }
Assets == STATIC_ASSETS \cup { "./icon.png" }
NoStaticCache == [ a \in Assets |-> <<>> ]
WorkerAtRest == staticCache = NoStaticCache /\ apiCache = <<>> /\ response = <<>>

BrowserAtRest ==
    /\ clock = RestClock /\ refreshInterval = 0 /\ isOnline = TRUE /\ visibilityState = "visible"
    /\ timers = NoTimers

\* this.refreshInterval after setupAutoRefresh() of the EMA tracker at the reading now
setupAutoRefresh(now) == IF isMarketHours(now) THEN MARKET_PERIOD ELSE AFTER_HOURS_PERIOD

\* ... of the basic tracker: no timer outside market hours or offline
BasicSetupAutoRefresh(now, online) == IF isMarketHours(now) /\ online THEN MARKET_PERIOD ELSE 0

\* freshness windows of loadCachedData, in milliseconds
QUOTE_WINDOW == 600000
HISTORY_WINDOW == 3600000
EMA_WINDOW == 3600000

\* JSON.parse(JSON.stringify(v)) of a number: Infinity and -Infinity come back as null
JsonNumber(v) == IF v = NegInfinity \/ v = PosInfinity THEN NullClose ELSE v

\* the fields of a Quote Snapshot that hold strings
TextFields == { "ema_trend", "last_crossover", "crossover_type" }

\* ... of a Quote Snapshot: a field that holds undefined is left out, and a string
\* comes back as it was
JsonOfQuote(q) ==
    [ f \in { g \in DOMAIN q : g \in TextFields \/ q[g] # Undefined } |->
        IF f \in TextFields THEN q[f] ELSE JsonNumber(q[f]) ]

\* ... of the value cached under key: this.data (null or a Quote Snapshot), the bar
\* sequence (dates are strings, closes finite numbers or null) or the EMA bundle
\* (arrays of finite numbers, nulls, strings and objects of them)
JsonOf(key, value) ==
    IF key = "nifty_current" THEN [ i \in DOMAIN value |-> JsonOfQuote(value[i]) ]
    ELSE IF key = "nifty_historical"
    THEN [ i \in DOMAIN value |-> [ f \in DOMAIN value[i] |-> value[i][f] ] ]
    ELSE [ f \in DOMAIN value |-> value[f] ]

\* cacheData(key, data) at the reading now: the entry written.  data is what
\* JSON.parse gives back from the stored text; passed is the argument itself, kept
\* beside the entry to compare with, and never read by the tracker.
CacheEntry(key, value, now) ==
    << [ data |-> JsonOf(key, value), timestamp |-> now, version |-> "2.0", passed |-> value ] >>

\* loadCachedData: the value adopted from an entry, else the value held
Adopted(entry, held, window, now) ==
    IF entry # <<>> /\ entry[1].version = "2.0" /\ now - entry[1].timestamp < window
    THEN entry[1].data ELSE held

----------------------------------------------------------------------------
(* The EMA tracker *)

\* a || b on quote fields: 0, null and undefined are falsy
OrElse(a, b) == IF a = 0 \/ a = Undefined \/ a = NullClose THEN b ELSE a

processNiftyData(meta, now) ==
    [ current_price |-> OrElse(meta.regularMarketPrice, meta.previousClose),
      previous_close |-> meta.previousClose,
      open |-> OrElse(meta.regularMarketOpen, meta.previousClose),
      high_52w |-> meta.fiftyTwoWeekHigh,
      low_52w |-> meta.fiftyTwoWeekLow,
      all_time_high |-> ALL_TIME_HIGH,
      pe_ratio |-> FALLBACK_DATA.pe_ratio,
      rsi |-> FALLBACK_DATA.rsi,
      dma_200 |-> FALLBACK_DATA.dma_200,
      last_updated |-> now ]

useFallbackData(now) ==
    [ f \in DOMAIN FALLBACK_DATA \cup {"last_updated"} |->
        IF f = "last_updated" THEN now ELSE FALLBACK_DATA[f] ]

\* fetchNiftyData of the EMA tracker on the answer p: a status that is not ok and a
\* payload without chart.result[0].meta end in useFallbackData
QuoteOfAnswer(p, now) ==
    IF p.status # "ok" \/ p.result = <<>> \/ p.result[1].meta = <<>> THEN useFallbackData(now)
    ELSE processNiftyData(p.result[1].meta[1], now)

\* timestamps.map(...).filter(item => item.close !== null)
processHistoricalData(bars) == SelectSeq(bars, LAMBDA item : item.close # NullClose)

\* new NiftyEMATracker(): the constructor and init() up to its await.
\* checkOnlineStatus() is handleOnlineStatus(navigator.onLine): it sets the timer
\* when online and clears it when offline.
Construct ==
    /\ pc = "new"
    /\ data' = Adopted(storage.nifty_current, <<>>, QUOTE_WINDOW, clock)
    /\ historicalData' = Adopted(storage.nifty_historical, <<>>, HISTORY_WINDOW, clock)
    /\ emaData' = Adopted(storage.nifty_ema, NoEma, EMA_WINDOW, clock)
    /\ \E kind \in Nets : net' = kind
    /\ pending' = {"quote", "bars"}
    /\ cycles' = cycles + 1
    /\ pc' = "fetching"
    /\ refreshInterval' = IF isOnline THEN setupAutoRefresh(clock) ELSE 0
    /\ timers' = TimersAfterSetup(timers, refreshInterval, refreshInterval')
    /\ UNCHANGED << earlier, called, worker, market, today, FALLBACK_HISTORICAL, storage, outcome, ui, badge,
                    refreshDisabled, emaIn, emaOut, indicatorCall, clock, isOnline,
                    visibilityState >>

\* fetchNiftyData settles
FetchNiftyData ==
    /\ pc = "fetching" /\ "quote" \in pending
    /\ IF net # "down"
       THEN /\ data' = << processNiftyData(SourceMetaOf(net), today) >>
            /\ storage' = [ storage EXCEPT !.nifty_current = CacheEntry("nifty_current", data', clock) ]
       ELSE /\ data' = << useFallbackData(today) >>
            /\ UNCHANGED storage
    /\ pending' = pending \ {"quote"}
    /\ UNCHANGED << earlier, called, worker, market, today, FALLBACK_HISTORICAL, historicalData, emaData, pc, net,
                    cycles, outcome, ui, badge, refreshDisabled, emaIn, emaOut, indicatorCall, browser >>

\* fetchHistoricalData settles
FetchHistoricalData ==
    /\ pc = "fetching" /\ "bars" \in pending
    /\ IF net = "down"
       THEN /\ historicalData' = FALLBACK_HISTORICAL
            /\ UNCHANGED storage
       ELSE /\ historicalData' = IF net = "malformed" THEN FALLBACK_HISTORICAL
                                 ELSE processHistoricalData(SourceBars(net))
            /\ storage' = [ storage EXCEPT !.nifty_historical = CacheEntry("nifty_historical", historicalData', clock) ]
    /\ pending' = pending \ {"bars"}
    /\ UNCHANGED << earlier, called, worker, market, today, FALLBACK_HISTORICAL, data, emaData, pc, net,
                    cycles, outcome, ui, badge, refreshDisabled, emaIn, emaOut, indicatorCall, browser >>

\* after Promise.all: calculateEMAs(); detectCrossovers(); updateUI(); ... and then
\* setupAutoRefresh() in init(), the button released in manualRefresh() (the button
\* is disabled during a manual refresh only).
\* computed is emaData after calculateEMAs.  A TypeError of detectCrossovers rejects
\* the cycle: nothing after it runs.
AfterFetch(computed) ==
    /\ storage' = IF EMAsComputed(historicalData)
                  THEN [ storage EXCEPT !.nifty_ema = CacheEntry("nifty_ema", computed, clock) ]
                  ELSE storage
    /\ outcome' = DetectOutcome(computed, historicalData)
    /\ emaData' = detectCrossovers(computed, historicalData)
    /\ IF outcome' = "threw"
       THEN pc' = "threw" /\ UNCHANGED << ui, refreshDisabled, refreshInterval, timers >>
       ELSE /\ pc' = "idle"
            /\ ui' = updateUI(ui, data, emaData', today)
            /\ refreshDisabled' = FALSE
            /\ refreshInterval' = IF refreshDisabled THEN refreshInterval
                                  ELSE setupAutoRefresh(clock)
            /\ timers' = IF refreshDisabled THEN timers
                         ELSE TimersAfterSetup(timers, refreshInterval, refreshInterval')

Continue ==
    /\ pc = "fetching" /\ pending = {}
    /\ AfterFetch(calculateEMAs(emaData, historicalData))
    /\ UNCHANGED << earlier, called, worker, market, today, FALLBACK_HISTORICAL, data, historicalData, net, pending,
                    cycles, badge, emaIn, emaOut, indicatorCall,
                    clock, isOnline, visibilityState >>

\* a click on refreshBtn: manualRefresh() up to its await
ManualRefresh ==
    /\ pc \in {"idle", "threw"} /\ ~refreshDisabled
    /\ cycles < MaxCycles
    /\ refreshDisabled' = TRUE
    /\ \E kind \in Nets : net' = kind
    /\ pending' = {"quote", "bars"}
    /\ cycles' = cycles + 1
    /\ pc' = "fetching"
    /\ UNCHANGED << earlier, called, worker, market, today, FALLBACK_HISTORICAL, data, historicalData, emaData,
                    storage, outcome, ui, badge, emaIn, emaOut, indicatorCall, browser >>

Init ==
    /\ market \in Markets
    /\ today = Len(market)
    /\ FALLBACK_HISTORICAL \in Fallbacks(today)
    /\ data = <<>> /\ historicalData = <<>> /\ emaData = NoEma
    /\ storage = NoStorage
    /\ pc = "new" /\ net = "ok" /\ pending = {} /\ cycles = 0 /\ outcome = "none"
    /\ ui = <<>> /\ badge = "" /\ refreshDisabled = FALSE
    /\ emaIn = [ prices |-> <<>>, period |-> 1 ] /\ emaOut = <<>>
    /\ indIn = NoCall /\ indOut = <<>> /\ earlier = <<>> /\ called = <<>> /\ WorkerAtRest /\ payload = NoPayload
    /\ BrowserAtRest

Next == Construct \/ FetchNiftyData \/ FetchHistoricalData \/ Continue \/ ManualRefresh

Spec == Init /\ [][Next]_vars

----------------------------------------------------------------------------
(* The signal synthesizer and the trend resolver on drawn inputs: a page that holds
   a Quote Snapshot and EMA data (as loadCachedData adopts them) and renders them *)

SignalPrices == { 2000000, 2364961, 2364962, 2474100, 2890508, 2890509 }
SignalRsis == { 2000, 3000, 5321 }
SignalPes == { 1500, 2100, 2173 }

Quotes(now) ==
    { [ useFallbackData(now) EXCEPT !.current_price = p, !.rsi = r, !.pe_ratio = e ] :
        p \in SignalPrices, r \in SignalRsis, e \in SignalPes }

CrossAt(d, type) ==
    [ date |-> d, type |-> type, price |-> 100,
      ema20 |-> NumOfHundredths(FALLBACK_DATA.ema_20), ema50 |-> NumOfHundredths(FALLBACK_DATA.ema_50) ]

\* EMA data ending in the values f and s (hundredths; 0 for an empty sequence)
EmaEnding(f, s, crossovers) ==
    [ ema20 |-> IF f = 0 THEN <<>> ELSE << NumOfHundredths(f) >>,
      ema50 |-> IF s = 0 THEN <<>> ELSE << NumOfHundredths(s) >>,
      crossovers |-> crossovers ]

SignalEmas(now) ==
    { EmaEnding(l[1], l[2], c) :
        l \in { <<0, 0>>, <<FALLBACK_DATA.ema_20, 0>>, <<0, FALLBACK_DATA.ema_50>>,
                <<FALLBACK_DATA.ema_20, FALLBACK_DATA.ema_50>>,
                <<FALLBACK_DATA.ema_50, FALLBACK_DATA.ema_20>>,
                <<FALLBACK_DATA.ema_50, FALLBACK_DATA.ema_50>> },
        c \in { <<>>, << CrossAt(now - 5, "BULLISH_CROSS") >>, << CrossAt(now - 20, "BULLISH_CROSS") >>,
                << CrossAt(now - 40, "BEARISH_CROSS") >> } }

\* updateUI of the EMA tracker
ShowSignals ==
    /\ pc = "page" /\ ui = <<>>
    /\ ui' = updateUI(ui, data, emaData, today)
    /\ UNCHANGED << earlier, called, worker, market, today, FALLBACK_HISTORICAL, data, historicalData, emaData, storage,
                    pc, net, pending, cycles, outcome, badge, refreshDisabled, emaIn, emaOut, indicatorCall, browser >>

\* updateUI of the basic tracker
ShowBasic ==
    /\ pc = "page" /\ badge = ""
    /\ badge' = BasicUpdateUI(badge, data)
    /\ UNCHANGED << earlier, called, worker, market, today, FALLBACK_HISTORICAL, data, historicalData, emaData, storage,
                    pc, net, pending, cycles, outcome, ui, refreshDisabled, emaIn, emaOut, indicatorCall, browser >>

InitSignals ==
    /\ market = <<>> /\ today = FALLBACK_DAYS /\ FALLBACK_HISTORICAL = <<>>
    /\ data \in { << q >> : q \in Quotes(today) }
    /\ historicalData = <<>>
    /\ emaData \in SignalEmas(today)
    /\ storage = NoStorage
    /\ pc = "page" /\ net = "ok" /\ pending = {} /\ cycles = 0 /\ outcome = "none"
    /\ ui = <<>> /\ badge = "" /\ refreshDisabled = FALSE
    /\ emaIn = [ prices |-> <<>>, period |-> 1 ] /\ emaOut = <<>>
    /\ indIn = NoCall /\ indOut = <<>> /\ earlier = <<>> /\ called = <<>> /\ WorkerAtRest /\ payload = NoPayload
    /\ BrowserAtRest

NextSignals == ShowSignals \/ ShowBasic

SpecSignals == InitSignals /\ [][NextSignals]_vars

----------------------------------------------------------------------------
(* calculateEMA called directly *)

DirectPrices == { 100, 113 }
DirectPeriods == { 1, 2, 6 }

DirectInputs ==
    { [ prices |-> s, period |-> p ] :
        s \in UNION { [1..n -> DirectPrices] : n \in 0..MaxDirect }, p \in DirectPeriods }
    \cup { [ prices |-> Closes(m), period |-> p ] :
             m \in Markets, p \in { EMA_PERIOD_20, EMA_PERIOD_50 } }

CallCalculateEMA ==
    /\ pc = "call"
    /\ emaOut' = calculateEMA(emaIn.prices, emaIn.period)
    /\ pc' = "done"
    /\ UNCHANGED << earlier, called, worker, market, today, FALLBACK_HISTORICAL, data, historicalData, emaData, storage,
                    net, pending, cycles, outcome, ui, badge, refreshDisabled, emaIn, indicatorCall, browser >>

InitEMA ==
    /\ market = <<>> /\ today = FALLBACK_DAYS /\ FALLBACK_HISTORICAL = <<>>
    /\ data = <<>> /\ historicalData = <<>> /\ emaData = NoEma
    /\ storage = NoStorage
    /\ pc = "call" /\ net = "ok" /\ pending = {} /\ cycles = 0 /\ outcome = "none"
    /\ ui = <<>> /\ badge = "" /\ refreshDisabled = FALSE
    /\ emaIn \in DirectInputs /\ emaOut = <<>>
    /\ indIn = NoCall /\ indOut = <<>> /\ earlier = <<>> /\ called = <<>> /\ WorkerAtRest /\ payload = NoPayload
    /\ BrowserAtRest

NextEMA == CallCalculateEMA

SpecEMA == InitEMA /\ [][NextEMA]_vars

----------------------------------------------------------------------------
(* calculateRSI and calculate200DMA called directly *)

RsiPrices == { 100, 101, 103 }
RsiPeriods == { 2, 3 }

\* n prices: a up to position s, then moving by step each position
Ramp(n, s, a, step) == [ i \in 1..n |-> IF i <= s THEN a ELSE a + (i - s) * step ]

\* n prices at a, every third one d higher
Saw(n, a, d) == [ i \in 1..n |-> IF i % 3 = 0 THEN a + d ELSE a ]

IndicatorInputs ==
    { [ fn |-> "calculateRSI", prices |-> s, period |-> p ] :
        s \in UNION { [1..n -> RsiPrices] : n \in 0..MaxRsiLen }, p \in RsiPeriods }
    \cup { [ fn |-> "calculateRSI", prices |-> Ramp(n, 8, 24000, step), period |-> RSI_PERIOD ] :
             n \in { RSI_PERIOD, RSI_PERIOD + 1, 60 }, step \in { 0 - 7, 0, 7 } }
    \cup { [ fn |-> "calculateRSI", prices |-> Closes(m), period |-> RSI_PERIOD ] : m \in Markets }
    \cup { [ fn |-> "calculateRSI", prices |-> Saw(n, 24000, d), period |-> RSI_PERIOD ] :
             n \in { RSI_PERIOD + 1, 60 }, d \in { 30, 45 } }
    \cup { [ fn |-> "calculate200DMA", prices |-> Ramp(n, 3, 24000, step), period |-> RSI_PERIOD ] :
             n \in { 0, 1, DMA_WINDOW - 1, DMA_WINDOW, DMA_WINDOW + 3 }, step \in { 0 - 7, 0, 7 } }

CallCalculateRSI ==
    /\ pc = "call" /\ indIn.fn = "calculateRSI"
    /\ indOut' = calculateRSI(indIn.prices, indIn.period)
    /\ pc' = "done"
    /\ UNCHANGED << earlier, called, worker, market, today, FALLBACK_HISTORICAL, data, historicalData, emaData, storage,
                    net, pending, cycles, outcome, ui, badge, refreshDisabled, emaIn, emaOut, indIn, payload, browser >>

CallCalculate200DMA ==
    /\ pc = "call" /\ indIn.fn = "calculate200DMA"
    /\ indOut' = calculate200DMA(indIn.prices)
    /\ pc' = "done"
    /\ UNCHANGED << earlier, called, worker, market, today, FALLBACK_HISTORICAL, data, historicalData, emaData, storage,
                    net, pending, cycles, outcome, ui, badge, refreshDisabled, emaIn, emaOut, indIn, payload, browser >>

InitIndicators ==
    /\ market = <<>> /\ today = FALLBACK_DAYS /\ FALLBACK_HISTORICAL = <<>>
    /\ data = <<>> /\ historicalData = <<>> /\ emaData = NoEma
    /\ storage = NoStorage
    /\ pc = "call" /\ net = "ok" /\ pending = {} /\ cycles = 0 /\ outcome = "none"
    /\ ui = <<>> /\ badge = "" /\ refreshDisabled = FALSE
    /\ emaIn = [ prices |-> <<>>, period |-> 1 ] /\ emaOut = <<>>
    /\ indIn \in IndicatorInputs /\ indOut = <<>> /\ earlier = <<>> /\ called = <<>> /\ WorkerAtRest /\ payload = NoPayload
    /\ BrowserAtRest

NextIndicators == CallCalculateRSI \/ CallCalculate200DMA

SpecIndicators == InitIndicators /\ [][NextIndicators]_vars

----------------------------------------------------------------------------
(* fetchNiftyData of either tracker called on a drawn answer of the data source *)

MetaFields == { "regularMarketPrice", "previousClose", "regularMarketOpen",
                "fiftyTwoWeekHigh", "fiftyTwoWeekLow" }

\* a meta object that holds the fields of `present` only
MetaWith(present) ==
    [ f \in MetaFields |->
        IF f \notin present THEN Undefined
        ELSE IF f = "regularMarketPrice" THEN FALLBACK_DATA.current_price
        ELSE IF f = "previousClose" THEN FALLBACK_DATA.previous_close
        ELSE IF f = "regularMarketOpen" THEN FALLBACK_DATA.open
        ELSE IF f = "fiftyTwoWeekHigh" THEN FALLBACK_DATA.high_52w
        ELSE FALLBACK_DATA.low_52w ]

\* indicators.quote[0] with all four arrays equal to xs
QuoteArrays(xs) == [ close |-> << xs >>, high |-> << xs >>, low |-> << xs >>, open |-> << xs >> ]

QuoteShapes ==
    { <<>>,
      << [ close |-> <<>>, high |-> <<>>, low |-> <<>>, open |-> <<>> ] >>,
      << QuoteArrays(<<>>) >>,
      << QuoteArrays(<< NullClose, NullClose >>) >>,
      << QuoteArrays(<< 24600, 24700, NullClose >>) >>,
      << QuoteArrays(Saw(RSI_PERIOD + 2, 24000, 30)) >> }

Answers ==
    { [ tracker |-> t, status |-> "ok", result |-> << [ meta |-> << MetaWith(present) >>, quote |-> q ] >> ] :
        t \in { "ema", "basic" }, present \in SUBSET MetaFields, q \in QuoteShapes }
    \cup { [ tracker |-> t, status |-> "ok", result |-> r ] :
             t \in { "ema", "basic" },
             r \in { <<>>, << [ meta |-> <<>>, quote |-> << QuoteArrays(<< 24600, 24700 >>) >> ] >> } }
    \cup { [ tracker |-> t, status |-> st, result |-> <<>> ] :
             t \in { "ema", "basic" }, st \in { "http error", "network failure" } }

\* fetchNiftyData of the EMA tracker settles: an answered fetch is cached
FetchQuote ==
    /\ pc = "call" /\ payload.tracker = "ema"
    /\ data' = << QuoteOfAnswer(payload, today) >>
    /\ storage' = IF payload.status = "ok"
                  THEN [ storage EXCEPT !.nifty_current = CacheEntry("nifty_current", data', clock) ] ELSE storage
    /\ pc' = "done"
    /\ UNCHANGED << earlier, called, worker, market, today, FALLBACK_HISTORICAL, historicalData, emaData,
                    net, pending, cycles, outcome, ui, badge, refreshDisabled, emaIn, emaOut,
                    indicatorCall, browser >>

\* fetchNiftyData of the basic tracker on the answer p: processYahooData caches what
\* it read and updates the page; useFallbackData updates the page
BasicFetchNiftyData(p) ==
    /\ data' = << BasicQuoteOfAnswer(p, today) >>
    /\ storage' = IF p.status = "ok" /\ ~YahooDataThrows(p)
                  THEN [ storage EXCEPT !.nifty_data = << JsonOfQuote(data'[1]) >> ] ELSE storage
    /\ badge' = BasicUpdateUI(badge, data')

BasicFetchQuote ==
    /\ pc = "call" /\ payload.tracker = "basic"
    /\ BasicFetchNiftyData(payload)
    /\ pc' = "done"
    /\ UNCHANGED << earlier, called, worker, market, today, FALLBACK_HISTORICAL, historicalData, emaData,
                    net, pending, cycles, outcome, ui, refreshDisabled, emaIn, emaOut,
                    indicatorCall, browser >>

InitQuote ==
    /\ market = <<>> /\ today = FALLBACK_DAYS /\ FALLBACK_HISTORICAL = <<>>
    /\ data = <<>> /\ historicalData = <<>> /\ emaData = NoEma
    /\ storage = NoStorage
    /\ pc = "call" /\ net = "ok" /\ pending = {} /\ cycles = 0 /\ outcome = "none"
    /\ ui = <<>> /\ badge = "" /\ refreshDisabled = FALSE
    /\ emaIn = [ prices |-> <<>>, period |-> 1 ] /\ emaOut = <<>>
    /\ indIn = NoCall /\ indOut = <<>> /\ earlier = <<>> /\ called = <<>> /\ WorkerAtRest /\ payload \in Answers
    /\ BrowserAtRest

NextQuote == FetchQuote \/ BasicFetchQuote

SpecQuote == InitQuote /\ [][NextQuote]_vars

----------------------------------------------------------------------------
(* cacheData and loadCachedData of the EMA tracker: a page caches what its cycle
   obtains, the page is closed, and a later page loads what localStorage holds *)

MaxElapsed == 4200000     \* milliseconds the clock runs on after RestClock
ElapseStep == 10 * Minute    \* the clock is read every ten minutes

CacheKeys == { "nifty_current", "nifty_historical", "nifty_ema" }

\* the field loadCachedData assigns from the entry under key
Held(key) ==
    IF key = "nifty_current" THEN data
    ELSE IF key = "nifty_historical" THEN historicalData ELSE emaData

\* the constructor's value of that field
Blank(key) == IF key = "nifty_current" THEN <<>> ELSE IF key = "nifty_historical" THEN <<>> ELSE NoEma

Window(key) ==
    IF key = "nifty_current" THEN QUOTE_WINDOW
    ELSE IF key = "nifty_historical" THEN HISTORY_WINDOW ELSE EMA_WINDOW

\* entries left by a release with another schema tag
ForeignStorage(now) ==
    [ key \in DOMAIN NoStorage |->
        IF key \in CacheKeys
        THEN << [ data |-> Blank(key), timestamp |-> now, version |-> "1.0", passed |-> Blank(key) ] >>
        ELSE <<>> ]

\* time passes while the page is closed
Elapse ==
    /\ pc = "new" /\ cycles > 0
    /\ clock - RestClock < MaxElapsed
    /\ clock' = clock + ElapseStep
    /\ UNCHANGED << earlier, called, worker, market, today, FALLBACK_HISTORICAL, data, historicalData, emaData, storage,
                    pc, net, pending, cycles, outcome, ui, badge, refreshDisabled, emaIn, emaOut,
                    indicatorCall, refreshInterval, isOnline, visibilityState, timers >>

\* the page that ran its first cycle is closed: what remains is localStorage, and the
\* next page starts from the constructor's values
Reopen ==
    /\ pc \in { "idle", "threw" } /\ cycles = 1
    /\ data' = <<>> /\ historicalData' = <<>> /\ emaData' = NoEma
    /\ outcome' = "none" /\ ui' = <<>> /\ refreshDisabled' = FALSE
    /\ refreshInterval' = 0 /\ timers' = NoTimers
    /\ pc' = "new"
    /\ UNCHANGED << earlier, called, worker, market, today, FALLBACK_HISTORICAL, storage, net, pending, cycles, badge,
                    emaIn, emaOut, indicatorCall, clock, isOnline, visibilityState >>

InitCache ==
    /\ market = StepHistory(60, 55, 100, 110)
    /\ today = Len(market)
    /\ FALLBACK_HISTORICAL \in Fallbacks(today)
    /\ data = <<>> /\ historicalData = <<>> /\ emaData = NoEma
    /\ storage \in { NoStorage, ForeignStorage(RestClock) }
    /\ pc = "new" /\ net = "ok" /\ pending = {} /\ cycles = 0 /\ outcome = "none"
    /\ ui = <<>> /\ badge = "" /\ refreshDisabled = FALSE
    /\ emaIn = [ prices |-> <<>>, period |-> 1 ] /\ emaOut = <<>>
    /\ indIn = NoCall /\ indOut = <<>> /\ earlier = <<>> /\ called = <<>> /\ WorkerAtRest /\ payload = NoPayload
    /\ BrowserAtRest

NextCache == Construct \/ FetchNiftyData \/ FetchHistoricalData \/ Continue \/ Reopen \/ Elapse

SpecCache == InitCache /\ [][NextCache]_vars

----------------------------------------------------------------------------
(* The refresh timer of both trackers, under the events of the browser and the
   passage of time.  The browser's local time is that of the exchange. *)

\* Monday 09:14, 09:15, 15:30 and 15:31, and Saturday 10:00
RefreshInstants ==
    { (9 * 60 + 14) * Minute, (9 * 60 + 15) * Minute, (15 * 60 + 30) * Minute,
      (15 * 60 + 31) * Minute, 5 * Day + 10 * 60 * Minute }

\* answers to a quote fetch of the basic tracker: none, and a complete one
RefreshAnswers ==
    { [ tracker |-> "basic", status |-> "network failure", result |-> <<>> ],
      [ tracker |-> "basic", status |-> "ok",
        result |-> << [ meta |-> << MetaWith(MetaFields) >>,
                        quote |-> << QuoteArrays(<< 24600, 24700 >>) >> ] >> ] }

\* fetchNiftyData of the EMA tracker against an answer of kind
RefetchQuote(kind) ==
    /\ data' = IF kind # "down" THEN << processNiftyData(SourceMetaOf(kind), today) >>
               ELSE << useFallbackData(today) >>
    /\ storage' = IF kind # "down"
                  THEN [ storage EXCEPT !.nifty_current = CacheEntry("nifty_current", data', clock) ]
                  ELSE storage

\* the clock moves on to the next instant while the page is at rest
Tick ==
    /\ pc \in { "idle", "threw", "basic-idle" }
    /\ \E t \in RefreshInstants :
        /\ t > clock /\ \A u \in RefreshInstants : u > clock => t <= u
        /\ clock' = t
    /\ UNCHANGED << earlier, called, worker, market, today, FALLBACK_HISTORICAL, data, historicalData, emaData, storage,
                    pc, net, pending, cycles, outcome, ui, badge, refreshDisabled, emaIn, emaOut,
                    indicatorCall, refreshInterval, isOnline, visibilityState, timers >>

\* the timer of the EMA tracker fires: await fetchNiftyData(); updateUI()
AutoRefresh ==
    /\ pc \in { "idle", "threw" } /\ \E p \in TimerPeriods : timers[p] > 0
    /\ \E kind \in Nets : RefetchQuote(kind)
    /\ ui' = updateUI(ui, data', emaData, today)
    /\ UNCHANGED << earlier, called, worker, market, today, FALLBACK_HISTORICAL, historicalData, emaData,
                    pc, net, pending, cycles, outcome, badge, refreshDisabled, emaIn, emaOut,
                    indicatorCall, browser >>

\* the online event: handleOnlineStatus(true)
Online ==
    /\ pc \in { "idle", "threw" } /\ ~isOnline
    /\ isOnline' = TRUE
    /\ refreshInterval' = setupAutoRefresh(clock)
    /\ timers' = TimersAfterSetup(timers, refreshInterval, refreshInterval')
    /\ UNCHANGED << earlier, called, worker, market, today, FALLBACK_HISTORICAL, data, historicalData, emaData, storage,
                    pc, net, pending, cycles, outcome, ui, badge, refreshDisabled, emaIn, emaOut,
                    indicatorCall, clock, visibilityState >>

\* the offline event: handleOnlineStatus(false)
Offline ==
    /\ pc \in { "idle", "threw" } /\ isOnline
    /\ isOnline' = FALSE
    /\ refreshInterval' = 0
    /\ timers' = clearAutoRefresh(timers, refreshInterval)
    /\ UNCHANGED << earlier, called, worker, market, today, FALLBACK_HISTORICAL, data, historicalData, emaData, storage,
                    pc, net, pending, cycles, outcome, ui, badge, refreshDisabled, emaIn, emaOut,
                    indicatorCall, clock, visibilityState >>

\* visibilitychange: setupAutoRefresh() when the page becomes visible,
\* clearAutoRefresh() when it is hidden
VisibilityChange ==
    /\ pc \in { "idle", "threw" }
    /\ visibilityState' = IF visibilityState = "visible" THEN "hidden" ELSE "visible"
    /\ refreshInterval' = IF visibilityState' = "visible" THEN setupAutoRefresh(clock) ELSE 0
    /\ timers' = TimersAfterSetup(timers, refreshInterval, refreshInterval')
    /\ UNCHANGED << earlier, called, worker, market, today, FALLBACK_HISTORICAL, data, historicalData, emaData, storage,
                    pc, net, pending, cycles, outcome, ui, badge, refreshDisabled, emaIn, emaOut,
                    indicatorCall, clock, isOnline >>

\* new NiftyTracker(): the constructor and init().  checkOnlineStatus() reads
\* navigator.onLine again; what loadCachedData adopts and shows is overwritten by
\* fetchNiftyData, which always assigns this.data and updates the page.
BasicInit ==
    /\ pc = "basic-new"
    /\ \E p \in RefreshAnswers : BasicFetchNiftyData(p)
    /\ refreshInterval' = BasicSetupAutoRefresh(clock, isOnline)
    /\ timers' = TimersAfterSetup(timers, refreshInterval, refreshInterval')
    /\ pc' = "basic-idle"
    /\ UNCHANGED << earlier, called, worker, market, today, FALLBACK_HISTORICAL, historicalData, emaData,
                    net, pending, cycles, outcome, ui, refreshDisabled, emaIn, emaOut,
                    indicatorCall, clock, isOnline, visibilityState >>

\* the timer of the basic tracker fires: fetchNiftyData()
BasicAutoRefresh ==
    /\ pc = "basic-idle" /\ \E p \in TimerPeriods : timers[p] > 0
    /\ \E p \in RefreshAnswers : BasicFetchNiftyData(p)
    /\ UNCHANGED << earlier, called, worker, market, today, FALLBACK_HISTORICAL, historicalData, emaData,
                    pc, net, pending, cycles, outcome, ui, refreshDisabled, emaIn, emaOut,
                    indicatorCall, browser >>

\* the online event of the basic tracker: fetchNiftyData(); setupAutoRefresh()
BasicOnline ==
    /\ pc = "basic-idle" /\ ~isOnline
    /\ isOnline' = TRUE
    /\ \E p \in RefreshAnswers : BasicFetchNiftyData(p)
    /\ refreshInterval' = BasicSetupAutoRefresh(clock, isOnline')
    /\ timers' = TimersAfterSetup(timers, refreshInterval, refreshInterval')
    /\ UNCHANGED << earlier, called, worker, market, today, FALLBACK_HISTORICAL, historicalData, emaData,
                    pc, net, pending, cycles, outcome, ui, refreshDisabled, emaIn, emaOut,
                    indicatorCall, clock, visibilityState >>

\* the offline event of the basic tracker: clearAutoRefresh()
BasicOffline ==
    /\ pc = "basic-idle" /\ isOnline
    /\ isOnline' = FALSE
    /\ refreshInterval' = 0
    /\ timers' = clearAutoRefresh(timers, refreshInterval)
    /\ UNCHANGED << earlier, called, worker, market, today, FALLBACK_HISTORICAL, data, historicalData, emaData, storage,
                    pc, net, pending, cycles, outcome, ui, badge, refreshDisabled, emaIn, emaOut,
                    indicatorCall, clock, visibilityState >>

\* visibilitychange of the basic tracker: fetchNiftyData() when the page is shown
BasicVisibilityChange ==
    /\ pc = "basic-idle"
    /\ visibilityState' = IF visibilityState = "visible" THEN "hidden" ELSE "visible"
    /\ IF visibilityState' = "visible"
       THEN \E p \in RefreshAnswers : BasicFetchNiftyData(p)
       ELSE UNCHANGED << data, storage, badge >>
    /\ UNCHANGED << earlier, called, worker, market, today, FALLBACK_HISTORICAL, historicalData, emaData,
                    pc, net, pending, cycles, outcome, ui, refreshDisabled, emaIn, emaOut,
                    indicatorCall, clock, refreshInterval, isOnline, timers >>

InitRefresh ==
    /\ market = StepHistory(60, 55, 100, 110)
    /\ today = Len(market)
    /\ FALLBACK_HISTORICAL \in Fallbacks(today)
    /\ data = <<>> /\ historicalData = <<>> /\ emaData = NoEma
    /\ storage = NoStorage
    /\ pc \in { "new", "basic-new" }
    /\ net = "ok" /\ pending = {} /\ cycles = 0 /\ outcome = "none"
    /\ ui = <<>> /\ badge = "" /\ refreshDisabled = FALSE
    /\ emaIn = [ prices |-> <<>>, period |-> 1 ] /\ emaOut = <<>>
    /\ indIn = NoCall /\ indOut = <<>> /\ earlier = <<>> /\ called = <<>> /\ WorkerAtRest /\ payload = NoPayload
    /\ clock \in RefreshInstants /\ refreshInterval = 0 /\ timers = NoTimers
    /\ isOnline \in BOOLEAN /\ visibilityState = "visible"

NextEnhancedRefresh == Construct \/ FetchNiftyData \/ FetchHistoricalData \/ Continue \/ AutoRefresh \/ Online \/ Offline \/ VisibilityChange
NextBasicRefresh == BasicInit \/ BasicAutoRefresh \/ BasicOnline \/ BasicOffline \/ BasicVisibilityChange
NextRefresh == NextEnhancedRefresh \/ NextBasicRefresh \/ Tick

SpecRefresh == InitRefresh /\ [][NextRefresh]_vars

----------------------------------------------------------------------------
(* Refresh cycles of the EMA tracker interleaved with the firing of its timer *)

\* the answers to the quote fetch of a timer that fires during a cycle
RacingNets == { "ok", "down" }

\* the timer fires while the fetches of a cycle are out: its quote fetch settles, and
\* its updateUI() runs, before the cycle goes on
AutoRefreshDuringCycle ==
    /\ pc = "fetching" /\ \E p \in TimerPeriods : timers[p] > 0
    /\ \E kind \in RacingNets : RefetchQuote(kind)
    /\ ui' = updateUI(ui, data', emaData, today)
    /\ UNCHANGED << earlier, called, worker, market, today, FALLBACK_HISTORICAL, historicalData, emaData,
                    pc, net, pending, cycles, outcome, badge, refreshDisabled, emaIn, emaOut,
                    indicatorCall, browser >>

InitRace ==
    /\ market = StepHistory(60, 55, 100, 110)
    /\ today = Len(market)
    /\ FALLBACK_HISTORICAL \in Fallbacks(today)
    /\ data = <<>> /\ historicalData = <<>> /\ emaData = NoEma
    /\ storage = NoStorage
    /\ pc = "new" /\ net = "ok" /\ pending = {} /\ cycles = 0 /\ outcome = "none"
    /\ ui = <<>> /\ badge = "" /\ refreshDisabled = FALSE
    /\ emaIn = [ prices |-> <<>>, period |-> 1 ] /\ emaOut = <<>>
    /\ indIn = NoCall /\ indOut = <<>> /\ earlier = <<>> /\ called = <<>> /\ WorkerAtRest /\ payload = NoPayload
    /\ BrowserAtRest

NextRace == Construct \/ FetchNiftyData \/ FetchHistoricalData \/ Continue \/ ManualRefresh \/ AutoRefresh \/ AutoRefreshDuringCycle

SpecRace == InitRace /\ [][NextRace]_vars

----------------------------------------------------------------------------
(* The methods that compute a value from the tracker, called directly in any state
   of a running page.  A call runs to completion: no handler of the page runs between
   the call and its return. *)

ReadingMethods ==
    { "calculateInvestmentSignals", "getCurrentEMATrend", "calculateCorrection", "calculateEMA",
      "getValueStrategyDescription", "getMomentumStrategyDescription", "getCombinedDescription" }

\* the fields of the tracker a method reaches through this
This ==
    [ data |-> data, historicalData |-> historicalData, emaData |-> emaData,
      isOnline |-> isOnline, refreshInterval |-> refreshInterval ]

\* what the method returns; the helpers get the arguments calculateInvestmentSignals
\* hands them, calculateEMA the closes of the history; <<>> is null
ReturnOf(fn, this, now) ==
    IF fn = "calculateEMA" THEN << calculateEMA(Closes(this.historicalData), EMA_PERIOD_20) >>
    ELSE IF fn = "getCurrentEMATrend" THEN << getCurrentEMATrend(this.emaData, now) >>
    ELSE IF this.data = <<>> THEN (IF fn = "calculateCorrection" THEN << <<0, 1>> >> ELSE <<>>)
    ELSE IF fn = "calculateCorrection" THEN << calculateCorrection(this.data[1]) >>
    ELSE LET signals == calculateInvestmentSignals(this.data[1], this.emaData, now)
         IN IF fn = "getValueStrategyDescription" THEN << signals.value.description >>
            ELSE IF fn = "getMomentumStrategyDescription" THEN << signals.momentum.description >>
            ELSE IF fn = "getCombinedDescription" THEN << signals.combined.description >>
            ELSE << signals >>

\* a trend resolver that takes the last crossover off the list with pop()
ThisAfterPop(fn, this) ==
    IF fn \in { "getCurrentEMATrend", "calculateInvestmentSignals" } /\ Len(this.emaData.crossovers) > 0
    THEN [ this EXCEPT !.emaData.crossovers = SubSeq(@, 1, Len(@) - 1) ]
    ELSE this

\* The fields after the call.  None of the methods assigns to a field of this, and the
\* arrays they read are indexed, never changed: calculateEMA pushes onto its own
\* emaValues, getCurrentEMATrend reads crossovers[length - 1].
ThisAfter(fn, this) == this

CallMethod ==
    /\ called = <<>>
    /\ \E fn \in ReadingMethods :
         /\ called' = << [ fn |-> fn, result |-> ReturnOf(fn, This, today) ] >>
         /\ data' = ThisAfter(fn, This).data
         /\ historicalData' = ThisAfter(fn, This).historicalData
         /\ emaData' = ThisAfter(fn, This).emaData
         /\ isOnline' = ThisAfter(fn, This).isOnline
         /\ refreshInterval' = ThisAfter(fn, This).refreshInterval
    /\ UNCHANGED << earlier, worker, market, today, FALLBACK_HISTORICAL, storage,
                    pc, net, pending, cycles, outcome, ui, badge, refreshDisabled, emaIn, emaOut,
                    indicatorCall, clock, visibilityState, timers >>

\* the caller drops the value
Return ==
    /\ called # <<>>
    /\ called' = <<>>
    /\ UNCHANGED << earlier, worker, market, today, FALLBACK_HISTORICAL, data, historicalData, emaData, storage,
                    pc, net, pending, cycles, outcome, ui, badge, refreshDisabled, emaIn, emaOut,
                    indicatorCall, browser >>

PageStep == called = <<>> /\ Next

NextFrame == PageStep \/ CallMethod \/ Return

SpecFrame == InitRace /\ [][NextFrame]_vars

----------------------------------------------------------------------------
(* Two runs of the page at the same time of the same day: the first page runs init(),
   is closed, and a second page is constructed in a browser without stored data. *)

\* what the run ended with
RunResult ==
    [ net |-> net, FALLBACK_HISTORICAL |-> FALLBACK_HISTORICAL, data |-> data,
      historicalData |-> historicalData, emaData |-> emaData, ui |-> ui ]

\* the constructor of the second page: generateFallbackHistoricalData() runs again
NewRun ==
    /\ pc \in { "idle", "threw" } /\ cycles = 1 /\ earlier = <<>>
    /\ earlier' = << RunResult >>
    /\ FALLBACK_HISTORICAL' \in FallbackDraws(today)
    /\ data' = <<>> /\ historicalData' = <<>> /\ emaData' = NoEma
    /\ storage' = NoStorage
    /\ outcome' = "none" /\ ui' = <<>> /\ refreshDisabled' = FALSE
    /\ refreshInterval' = 0 /\ timers' = NoTimers
    /\ pc' = "new"
    /\ UNCHANGED << called, worker, market, today, net, pending, cycles, badge,
                    emaIn, emaOut, indicatorCall, clock, isOnline, visibilityState >>

InitRuns ==
    /\ market = StepHistory(60, 55, 100, 110)
    /\ today = Len(market)
    /\ FALLBACK_HISTORICAL \in FallbackDraws(today)
    /\ data = <<>> /\ historicalData = <<>> /\ emaData = NoEma
    /\ storage = NoStorage
    /\ pc = "new" /\ net = "ok" /\ pending = {} /\ cycles = 0 /\ outcome = "none"
    /\ ui = <<>> /\ badge = "" /\ refreshDisabled = FALSE
    /\ emaIn = [ prices |-> <<>>, period |-> 1 ] /\ emaOut = <<>>
    /\ indIn = NoCall /\ indOut = <<>> /\ earlier = <<>> /\ called = <<>> /\ WorkerAtRest /\ payload = NoPayload
    /\ BrowserAtRest

NextRuns == Construct \/ FetchNiftyData \/ FetchHistoricalData \/ Continue \/ NewRun

SpecRuns == InitRuns /\ [][NextRuns]_vars

----------------------------------------------------------------------------
(* The service worker.  A response is [status, body, source, date, stale]: source
   tells which object the handler returned ("network" the response of fetch, "cache"
   a response matched in a cache, "fallback", "offline-page", "unavailable" the
   responses the worker builds), date is the header sw-cache-date (<<>> when absent),
   stale the header sw-cache-stale. *)

CACHE_DURATION_STATIC == 24 * 60 * 60 * 1000
CACHE_DURATION_API == 5 * 60 * 1000

\* the requests for static assets the page makes: the document, a script of
\* STATIC_ASSETS and an image that is not precached
RequestedAssets == { "./index.html", "./app.js", "./icon.png" }
Destination(asset) == IF asset = "./index.html" THEN "document" ELSE "other"

\* what fetch(request) does: answers ok, answers with a status that is not ok, or
\* rejects (offline, or aborted after 5 seconds)
NetworkAnswers == { "ok", "error", "reject" }

NetworkResponse(answer, content) ==
    [ status |-> IF answer = "ok" THEN 200 ELSE 500, body |-> content,
      source |-> "network", date |-> <<>>, stale |-> FALSE ]

\* the copy the handlers put into a cache: the response with sw-cache-date set
Dated(resp, now) == [ resp EXCEPT !.date = << now >> ]

\* cache.match: the stored response
Matched(entry) == [ entry EXCEPT !.source = "cache" ]

\* Date.now() - cacheDate > duration; without the header cacheDate is new Date(0),
\* the year 1970
Expired(entry, now, duration) == entry.date = <<>> \/ now - entry.date[1] > duration

\* getFallbackAPIResponse
FallbackBody(now) ==
    [ chart |-> [ result |-> << [ meta |-> [ regularMarketPrice |-> 2474100, previousClose |-> 2473430,
                                              regularMarketOpen |-> 2481885, fiftyTwoWeekHigh |-> 2627735,
                                              fiftyTwoWeekLow |-> 2174365 ],
                                   timestamp |-> << now \div 1000 >>,
                                   indicators |-> [ quote |-> << [ close |-> << 2474100 >>, high |-> << 2485000 >>,
                                                                   low |-> << 2468000 >>, open |-> << 2481885 >>,
                                                                   volume |-> << 1500000 >> ] >> ] ] >> ] ]

getFallbackAPIResponse(now) ==
    [ status |-> 200, body |-> FallbackBody(now), source |-> "fallback", date |-> << now >>, stale |-> FALSE ]

getOfflinePage == [ status |-> 200, body |-> "offlineHTML", source |-> "offline-page", date |-> <<>>, stale |-> FALSE ]

Unavailable ==
    [ status |-> 503, body |-> "Asset not available offline", source |-> "unavailable", date |-> <<>>, stale |-> FALSE ]

\* the catch block of handleStaticAsset
StaticAssetFailed(asset) == IF Destination(asset) = "document" THEN getOfflinePage ELSE Unavailable

\* handleStaticAsset: [response, cache], the response it resolves to and the entry of
\* the asset in the static cache afterwards
handleStaticAsset(asset, answer, now, entry) ==
    IF entry # <<>> /\ ~Expired(entry[1], now, CACHE_DURATION_STATIC)
    THEN [ response |-> Matched(entry[1]), cache |-> entry ]
    ELSE IF answer = "reject" THEN [ response |-> StaticAssetFailed(asset), cache |-> entry ]
    ELSE IF answer = "ok"
    THEN [ response |-> NetworkResponse(answer, asset), cache |-> << Dated(NetworkResponse(answer, asset), now) >> ]
    ELSE IF entry # <<>> THEN [ response |-> Matched(entry[1]), cache |-> entry ]
    ELSE [ response |-> StaticAssetFailed(asset), cache |-> entry ]

\* a promise that rejects
Rejected == [ status |-> 0, body |-> "TypeError", source |-> "rejected", date |-> <<>>, stale |-> FALSE ]

\* a handler that lets the rejection of fetch escape
handleAPIRequestUncaught(answer, now, entry) ==
    IF answer = "ok"
    THEN [ response |-> NetworkResponse(answer, "chart"), cache |-> << Dated(NetworkResponse(answer, "chart"), now) >> ]
    ELSE IF answer = "reject" THEN [ response |-> Rejected, cache |-> entry ]
    ELSE IF entry # <<>>
    THEN [ response |-> [ Matched(entry[1]) EXCEPT !.stale = Expired(entry[1], now, CACHE_DURATION_API) ],
           cache |-> entry ]
    ELSE [ response |-> getFallbackAPIResponse(now), cache |-> entry ]

\* handleAPIRequest: [response, cache]
handleAPIRequest(answer, now, entry) ==
    IF answer = "ok"
    THEN [ response |-> NetworkResponse(answer, "chart"), cache |-> << Dated(NetworkResponse(answer, "chart"), now) >> ]
    ELSE IF entry # <<>>
    THEN [ response |-> [ Matched(entry[1]) EXCEPT !.stale = Expired(entry[1], now, CACHE_DURATION_API) ],
           cache |-> entry ]
    ELSE [ response |-> getFallbackAPIResponse(now), cache |-> entry ]

\* the instants at which the worker handles events
WorkerInstants ==
    { RestClock, RestClock + CACHE_DURATION_API, RestClock + CACHE_DURATION_API + 1,
      RestClock + CACHE_DURATION_STATIC, RestClock + CACHE_DURATION_STATIC + 1 }

\* the frame of the worker's events: the page's variables
WorkerFrame ==
    UNCHANGED << earlier, called, market, today, FALLBACK_HISTORICAL, data, historicalData, emaData, storage,
                 net, pending, cycles, outcome, ui, badge, refreshDisabled, emaIn, emaOut,
                 indicatorCall, refreshInterval, isOnline, visibilityState, timers >>

\* install: cache.addAll(STATIC_ASSETS) stores the responses as fetched; it rejects,
\* and the worker is not installed, unless every asset is fetched ok
Install ==
    /\ pc = "sw-new"
    /\ staticCache' = [ a \in Assets |-> IF a \in STATIC_ASSETS THEN << NetworkResponse("ok", a) >> ELSE <<>> ]
    /\ pc' = "sw-active"
    /\ UNCHANGED << apiCache, response, clock >>
    /\ WorkerFrame

\* a fetch event for a static asset
FetchStaticAsset ==
    /\ pc = "sw-active"
    /\ \E asset \in RequestedAssets, answer \in NetworkAnswers :
         LET handled == handleStaticAsset(asset, answer, clock, staticCache[asset])
         IN /\ response' = << [ request |-> asset, answer |-> answer, result |-> handled.response,
                                held |-> staticCache[asset], at |-> clock ] >>
            /\ staticCache' = [ staticCache EXCEPT ![asset] = handled.cache ]
    /\ UNCHANGED << apiCache, pc, clock >>
    /\ WorkerFrame

\* a fetch event for the chart request
FetchAPIRequest ==
    /\ pc = "sw-active"
    /\ \E answer \in NetworkAnswers :
         LET handled == handleAPIRequest(answer, clock, apiCache)
         IN /\ response' = << [ request |-> "chart", answer |-> answer, result |-> handled.response,
                                held |-> apiCache, at |-> clock ] >>
            /\ apiCache' = handled.cache
    /\ UNCHANGED << staticCache, pc, clock >>
    /\ WorkerFrame

WorkerElapse ==
    /\ pc = "sw-active"
    /\ \E t \in WorkerInstants : t > clock /\ clock' = t
    /\ UNCHANGED << staticCache, apiCache, response, pc >>
    /\ WorkerFrame

InitWorker ==
    /\ market = <<>> /\ today = FALLBACK_DAYS /\ FALLBACK_HISTORICAL = <<>>
    /\ data = <<>> /\ historicalData = <<>> /\ emaData = NoEma
    /\ storage = NoStorage
    /\ pc = "sw-new" /\ net = "ok" /\ pending = {} /\ cycles = 0 /\ outcome = "none"
    /\ ui = <<>> /\ badge = "" /\ refreshDisabled = FALSE
    /\ emaIn = [ prices |-> <<>>, period |-> 1 ] /\ emaOut = <<>>
    /\ indIn = NoCall /\ indOut = <<>> /\ earlier = <<>> /\ called = <<>> /\ WorkerAtRest /\ payload = NoPayload
    /\ BrowserAtRest

NextWorker == Install \/ FetchStaticAsset \/ FetchAPIRequest \/ WorkerElapse

SpecWorker == InitWorker /\ [][NextWorker]_vars

----------------------------------------------------------------------------
(* Properties *)

\* the bar (counted from 0) a fast value of index i and a slow value of index j belong to
FastBar(i) == i + EMA_PERIOD_20 - 1
SlowBar(j) == j + EMA_PERIOD_50 - 1

\* the steps of the loop that reach the comparisons
ComparedSteps(ema) == { i \in LoopIndices(ema) : ~Skips(ema, i) }

\* a cycle has ended normally and the EMAs held were computed from the history held
Fresh == pc = "idle" /\ outcome = "scanned" /\ EMAsComputed(historicalData)

\* the fast and the slow EMA value of bar b (counted from 0, b >= 49)
FastAt(b) == emaData.ema20[b - EMA_PERIOD_20 + 2]
SlowAt(b) == emaData.ema50[b - EMA_PERIOD_50 + 2]

\* the crossing of the EMAs at bar b (b >= 50): "" is none
TrueCross(b) ==
    IF NumCmp(FastAt(b - 1), SlowAt(b - 1)) <= 0 /\ NumCmp(FastAt(b), SlowAt(b)) > 0 THEN "BULLISH_CROSS"
    ELSE IF NumCmp(FastAt(b - 1), SlowAt(b - 1)) >= 0 /\ NumCmp(FastAt(b), SlowAt(b)) < 0 THEN "BEARISH_CROSS"
    ELSE ""

AlignedSteps == EMA_PERIOD_50 .. (Len(historicalData) - 1)

\* the positions of the crossover list that hold an event dated as bar b
EventsAt(b) == { k \in 1..Len(emaData.crossovers) : emaData.crossovers[k].date = historicalData[b + 1].date }

\* C1: the combined signal shown is a total function of the value signal and the
\* momentum signal: STRONG BUY iff both are BUY, BUY iff exactly one is BUY (so value
\* BUY with momentum AVOID gives BUY), AVOID iff value is WAIT and momentum is AVOID,
\* WAIT iff both are WAIT.
C1_CombinedSignalTable ==
    ui # <<>> =>
        LET v == ui[1].value.signal
            m == ui[1].momentum.signal
            c == ui[1].combined.signal
        IN /\ v \in {"BUY", "WAIT"} /\ m \in {"BUY", "AVOID", "WAIT"}
           /\ c \in {"STRONG BUY", "BUY", "AVOID", "WAIT"}
           /\ (c = "STRONG BUY") <=> (v = "BUY" /\ m = "BUY")
           /\ (c = "BUY") <=> ((v = "BUY" /\ m # "BUY") \/ (v # "BUY" /\ m = "BUY"))
           /\ (c = "AVOID") <=> (v = "WAIT" /\ m = "AVOID")
           /\ (c = "WAIT") <=> (v = "WAIT" /\ m = "WAIT")

C1_ValueBuyMomentumAvoid ==
    /\ ui # <<>>
    /\ ui[1].value.signal = "BUY" /\ ui[1].momentum.signal = "AVOID"
    /\ ui[1].combined.signal = "BUY"

\* C2 as claimed: every comparison detectCrossovers makes pairs a fast and a slow value
\* of the same bar, for the current pair and for the previous pair.
C2_SameBarCompared ==
    outcome = "scanned" =>
        \A i \in ComparedSteps(emaData) :
            /\ FastBar(Current20Index(i)) = SlowBar(Current50Index(i))
            /\ FastBar(Prev20Index(i)) = SlowBar(Prev50Index(i))

\* C2 as the code behaves: every comparison pairs the fast value of a bar with the
\* slow value of the bar EMA_PERIOD_20 - 1 bars later.
C2_ComparesLaterSlowBar ==
    outcome = "scanned" =>
        \A i \in ComparedSteps(emaData) :
            /\ SlowBar(Current50Index(i)) = FastBar(Current20Index(i)) + EMA_PERIOD_20 - 1
            /\ SlowBar(Prev50Index(i)) = FastBar(Prev20Index(i)) + EMA_PERIOD_20 - 1

C2_SomeStepCompared == Fresh /\ ComparedSteps(emaData) # {}

\* C3 as claimed: for every pair of consecutive bars with both EMAs defined, up to the
\* most recent bar, a crossing at that step has exactly one event in the list, and the
\* list holds no other event.
C3_EveryAlignedStepExamined ==
    Fresh =>
        /\ \A b \in AlignedSteps :
              IF TrueCross(b) = "" THEN EventsAt(b) = {}
              ELSE /\ Cardinality(EventsAt(b)) = 1
                   /\ \A k \in EventsAt(b) : emaData.crossovers[k].type = TrueCross(b)
        /\ \A k \in 1..Len(emaData.crossovers) : \E b \in AlignedSteps : k \in EventsAt(b)

\* C3 as the code behaves: a history of fewer than 70 bars yields no event, whatever
\* crossings its EMAs have.
C3_ShortHistoryYieldsNoEvent ==
    (Fresh /\ Len(historicalData) < EMA_PERIOD_50 + EMA_PERIOD_20) => emaData.crossovers = <<>>

C3_CrossingMissed ==
    /\ Fresh /\ emaData.crossovers = <<>>
    /\ \E b \in AlignedSteps : TrueCross(b) = "BULLISH_CROSS"

\* C4 as claimed: every event carries the date and the close of the bar the compared
\* current fast and slow values belong to, and the events are in ascending date order.
C4_EventCarriesComparedBar ==
    Fresh =>
        /\ \A i \in EmittingIndices(emaData) :
              \E k \in 1..Len(emaData.crossovers) :
                  LET e == emaData.crossovers[k]
                  IN /\ e.ema20 = Current20(emaData, i) /\ e.ema50 = Current50(emaData, i)
                     /\ e.date = historicalData[FastBar(Current20Index(i)) + 1].date
                     /\ e.date = historicalData[SlowBar(Current50Index(i)) + 1].date
                     /\ e.price = historicalData[FastBar(Current20Index(i)) + 1].close
        /\ \A k \in 1..(Len(emaData.crossovers) - 1) :
              emaData.crossovers[k].date < emaData.crossovers[k + 1].date

\* C4 as the code behaves: the event of step i carries the date and the close of bar i,
\* EMA_PERIOD_20 - 1 bars before the bar of the compared fast value; the events are
\* in ascending date order.
C4_EventCarriesLoopBar ==
    Fresh =>
        /\ \A i \in EmittingIndices(emaData) :
              \E k \in 1..Len(emaData.crossovers) :
                  LET e == emaData.crossovers[k]
                  IN /\ e.ema20 = Current20(emaData, i) /\ e.ema50 = Current50(emaData, i)
                     /\ e.date = historicalData[i + 1].date
                     /\ e.price = historicalData[i + 1].close
                     /\ FastBar(Current20Index(i)) = i + EMA_PERIOD_20 - 1
        /\ \A k \in 1..(Len(emaData.crossovers) - 1) :
              emaData.crossovers[k].date < emaData.crossovers[k + 1].date

C4_TwoEventsEmitted == Fresh /\ Len(emaData.crossovers) >= 2

\* C5: for every step detectCrossovers compares, it emits BULLISH_CROSS iff
\* prev_fast <= prev_slow and current_fast > current_slow, BEARISH_CROSS iff
\* prev_fast >= prev_slow and current_fast < current_slow, and nothing otherwise; a
\* step whose current values are equal emits nothing.
C5_EmitsExactlyOnCrossing ==
    Fresh =>
        /\ \A i \in ComparedSteps(emaData) :
              LET prev == NumCmp(Prev20(emaData, i), Prev50(emaData, i))
                  current == NumCmp(Current20(emaData, i), Current50(emaData, i))
                  types == { emaData.crossovers[k].type : k \in EventsAt(i) }
              IN /\ Cardinality(EventsAt(i)) <= 1
                 /\ ("BULLISH_CROSS" \in types) <=> (prev <= 0 /\ current > 0)
                 /\ ("BEARISH_CROSS" \in types) <=> (prev >= 0 /\ current < 0)
                 /\ (current = 0) => (types = {})
        /\ \A k \in 1..Len(emaData.crossovers) : \E i \in ComparedSteps(emaData) : k \in EventsAt(i)

C5_CrossFromEqualValues ==
    /\ Fresh
    /\ \E i \in ComparedSteps(emaData) :
          /\ NumCmp(Prev20(emaData, i), Prev50(emaData, i)) = 0
          /\ \E k \in EventsAt(i) : emaData.crossovers[k].type = "BULLISH_CROSS"
    /\ \E i \in ComparedSteps(emaData) :
          NumCmp(Current20(emaData, i), Current50(emaData, i)) = 0

\* C6: calculateEMA(prices, period) is the reference EMA: the empty sequence when there
\* are fewer prices than the period; otherwise len(prices) - period + 1 values, the
\* first the mean of the first `period` prices, each later one p * k + previous * (1 - k)
\* with k = 2 / (period + 1), p the next price in order.  (v = p * k + q * (1 - k) is
\* stated as v * (period + 1) = 2 * p + q * (period - 1).)
C6_ReferenceEMA ==
    pc = "done" =>
        LET prices == emaIn.prices
            period == emaIn.period
        IN IF Len(prices) < period THEN emaOut = <<>>
           ELSE /\ Len(emaOut) = Len(prices) - period + 1
                /\ MulSmall(emaOut[1], period) = NumOfPrice(SumRange(prices, 1, period))
                /\ \A j \in 2..Len(emaOut) :
                      MulSmall(emaOut[j], period + 1) =
                          NumAdd(NumOfPrice(2 * prices[period + j - 1]),
                                 MulSmall(emaOut[j - 1], period - 1))

C6_SlowEMAMoves ==
    /\ pc = "done" /\ emaIn.period = EMA_PERIOD_50
    /\ Len(emaOut) = MaxBars - EMA_PERIOD_50 + 1
    /\ NumCmp(emaOut[Len(emaOut)], emaOut[1]) > 0

\* C7: getCurrentEMATrend returns UNKNOWN iff the fast or the slow EMA sequence is
\* empty; otherwise BULLISH iff the last fast value is strictly greater than the last
\* slow value and BEARISH in every other case, equal last values included.
C7_TrendResolution ==
    ui # <<>> =>
        LET trend == ui[1].momentum.trend.trend
            empty == emaData.ema20 = <<>> \/ emaData.ema50 = <<>>
        IN /\ (trend = "UNKNOWN") <=> empty
           /\ ~empty =>
                LET last == NumCmp(emaData.ema20[Len(emaData.ema20)], emaData.ema50[Len(emaData.ema50)])
                IN /\ (trend = "BULLISH") <=> (last > 0)
                   /\ (trend = "BEARISH") <=> (last <= 0)

C7_EqualValuesBearish ==
    /\ ui # <<>>
    /\ emaData.ema20 # <<>> /\ emaData.ema50 # <<>>
    /\ emaData.ema20[Len(emaData.ema20)] = emaData.ema50[Len(emaData.ema50)]
    /\ ui[1].momentum.trend.trend = "BEARISH"

\* C8: on 60 bars of constant close 100, calculateEMAs yields fast and slow sequences
\* whose every value is 100, detectCrossovers yields no event, and getCurrentEMATrend
\* yields BEARISH with no lastCrossover and no daysSinceCross.
C8_ConstantHistory ==
    (pc = "idle" /\ historicalData = StepHistory(60, 60, 100, 100)) =>
        /\ emaData.ema20 = [ j \in 1..(60 - EMA_PERIOD_20 + 1) |-> NumOfPrice(100) ]
        /\ emaData.ema50 = [ j \in 1..(60 - EMA_PERIOD_50 + 1) |-> NumOfPrice(100) ]
        /\ emaData.crossovers = <<>>
        /\ getCurrentEMATrend(emaData, today).trend = "BEARISH"
        /\ getCurrentEMATrend(emaData, today).lastCrossover = <<>>
        /\ getCurrentEMATrend(emaData, today).daysSinceCross = <<>>
        /\ ui # <<>> /\ ui[1].momentum.trend = getCurrentEMATrend(emaData, today)

C8_ConstantHistoryShown ==
    /\ pc = "idle" /\ historicalData = StepHistory(60, 60, 100, 100)
    /\ Len(emaData.ema20) = 60 - EMA_PERIOD_20 + 1 /\ Len(emaData.ema50) = 60 - EMA_PERIOD_50 + 1
    /\ ui # <<>> /\ ui[1].momentum.trend.trend = "BEARISH"

\* C9 as claimed: after a cycle whose history has fewer than 50 bars the trend is
\* UNKNOWN with no lastCrossover, whatever an earlier cycle or the cache left.
C9_ShortHistoryIndeterminate ==
    (pc = "idle" /\ Len(historicalData) < EMA_PERIOD_50) =>
        /\ getCurrentEMATrend(emaData, today).trend = "UNKNOWN"
        /\ getCurrentEMATrend(emaData, today).lastCrossover = <<>>

\* C9 as the code behaves: after such a cycle the EMA sequences are the ones held
\* before it, so the trend is UNKNOWN only if none were held.
C9_ShortHistoryKeepsEarlierEMAs ==
    (pc = "idle" /\ Len(historicalData) < EMA_PERIOD_50) =>
        /\ (cycles = 1) => getCurrentEMATrend(emaData, today).trend = "UNKNOWN"
        /\ (getCurrentEMATrend(emaData, today).trend # "UNKNOWN") =>
              /\ cycles > 1
              /\ Len(emaData.ema20) > Len(historicalData) - EMA_PERIOD_20 + 1

C9_StaleTrendShown ==
    /\ pc = "idle" /\ Len(historicalData) < EMA_PERIOD_50
    /\ ui # <<>> /\ ui[1].momentum.trend.trend = "BULLISH"

\* abs(correction) >= CORRECTION_THRESHOLD, rsi < RSI_OVERSOLD and pe_ratio < PE_ATTRACTIVE
AllThreeHold(d) ==
    /\ PercentGe(Abs(calculateCorrection(d)), CORRECTION_THRESHOLD)
    /\ d.rsi < Hundredths(RSI_OVERSOLD)
    /\ d.pe_ratio < Hundredths(PE_ATTRACTIVE)

\* C10 as claimed: in both trackers the value signal is BUY iff abs(correction) >=
\* CORRECTION_THRESHOLD, rsi < RSI_OVERSOLD and pe_ratio < PE_ATTRACTIVE, otherwise
\* WAIT, for every current price.
C10_ValueSignalBothTrackers ==
    /\ ui # <<>> => ui[1].value.signal = IF AllThreeHold(data[1]) THEN "BUY" ELSE "WAIT"
    /\ badge # "" => badge = IF AllThreeHold(data[1]) THEN "BUY SIGNAL" ELSE "WAIT"

\* C10 as the code behaves: the basic tracker follows the rule; the EMA tracker
\* follows it for prices up to the all-time high and answers WAIT above it.
C10_ValueSignalBelowHigh ==
    /\ badge # "" => badge = IF AllThreeHold(data[1]) THEN "BUY SIGNAL" ELSE "WAIT"
    /\ ui # <<>> =>
          ui[1].value.signal =
              IF AllThreeHold(data[1]) /\ data[1].current_price <= data[1].all_time_high
              THEN "BUY" ELSE "WAIT"

C10_TrackersDisagree ==
    /\ ui # <<>> /\ badge = "BUY SIGNAL"
    /\ ui[1].value.signal = "WAIT"
    /\ data[1].current_price > data[1].all_time_high

\* C11: the momentum signal is BUY iff the trend is BULLISH, AVOID iff the trend is
\* BEARISH and WAIT iff the trend is UNKNOWN, whatever recentCross and priceAboveEMAs.
C11_MomentumFollowsTrend ==
    ui # <<>> =>
        LET m == ui[1].momentum.signal
            trend == ui[1].momentum.trend.trend
        IN /\ trend \in {"BULLISH", "BEARISH", "UNKNOWN"}
           /\ (m = "BUY") <=> (trend = "BULLISH")
           /\ (m = "AVOID") <=> (trend = "BEARISH")
           /\ (m = "WAIT") <=> (trend = "UNKNOWN")

C11_BuyBelowEMAsWithoutCross ==
    /\ ui # <<>>
    /\ ui[1].momentum.signal = "BUY"
    /\ ui[1].momentum.conditions.priceAboveEMAs = "false"
    /\ ui[1].momentum.conditions.recentCross # "true"

\* the booleans of JavaScript
JsBooleans == { "true", "false" }

\* a last crossover exists, its type is BULLISH_CROSS and daysSinceCross < 30
RecentCrossHolds(trend) ==
    /\ trend.lastCrossover # <<>>
    /\ trend.lastCrossover[1].type = "BULLISH_CROSS"
    /\ trend.daysSinceCross # <<>> /\ trend.daysSinceCross[1] < 30

\* C12 as claimed: every entry of the value and momentum conditions is a boolean, also
\* when there is no last crossover, and recentCross is true exactly when a last
\* crossover exists, its type is BULLISH_CROSS and daysSinceCross < 30.
C12_ConditionsAreBooleans ==
    ui # <<>> =>
        /\ \A name \in DOMAIN ui[1].value.conditions : ui[1].value.conditions[name] \in JsBooleans
        /\ \A name \in DOMAIN ui[1].momentum.conditions : ui[1].momentum.conditions[name] \in JsBooleans
        /\ (ui[1].momentum.conditions.recentCross = "true") <=> RecentCrossHolds(ui[1].momentum.trend)

\* C12 as the code behaves: recentCross is null when there is no last crossover and a
\* boolean otherwise; every other entry is a boolean; recentCross is true exactly
\* when the three parts hold.
C12_RecentCrossNullWithoutCrossover ==
    ui # <<>> =>
        /\ \A name \in DOMAIN ui[1].value.conditions : ui[1].value.conditions[name] \in JsBooleans
        /\ \A name \in DOMAIN ui[1].momentum.conditions \ {"recentCross"} :
              ui[1].momentum.conditions[name] \in JsBooleans
        /\ (ui[1].momentum.conditions.recentCross = "null") <=> (ui[1].momentum.trend.lastCrossover = <<>>)
        /\ ui[1].momentum.conditions.recentCross \in JsBooleans \cup {"null"}
        /\ (ui[1].momentum.conditions.recentCross = "true") <=> RecentCrossHolds(ui[1].momentum.trend)

C12_RecentCrossIsNull ==
    /\ ui # <<>>
    /\ ui[1].momentum.trend.trend = "BULLISH"
    /\ ui[1].momentum.conditions.recentCross = "null"

\* the rationale of a bullish trend by the age of the last crossover, none counting
\* as `ifNone`
BullishRationale(trend, ifNone) ==
    IF trend.lastCrossover = <<>> THEN ifNone
    ELSE IF trend.daysSinceCross[1] < 10 THEN "Fresh bullish crossover - Strong momentum"
    ELSE IF trend.daysSinceCross[1] < 30 THEN "Bullish trend continues - Good momentum"
    ELSE "Extended bullish trend - Monitor for reversal"

\* C13 as claimed: for a BULLISH trend the rationale is the 'Fresh bullish crossover'
\* template exactly when a last crossover exists with daysSinceCross < 10, 'Bullish
\* trend continues' exactly when one exists with 10 <= daysSinceCross < 30, and
\* 'Extended bullish trend' otherwise.
C13_RationaleByCrossoverAge ==
    (ui # <<>> /\ ui[1].momentum.trend.trend = "BULLISH") =>
        ui[1].momentum.description =
            BullishRationale(ui[1].momentum.trend, "Extended bullish trend - Monitor for reversal")

\* C13 as the code behaves: the same buckets when a last crossover exists; without
\* one the rationale is the 'Fresh bullish crossover' template.
C13_FreshWithoutCrossover ==
    (ui # <<>> /\ ui[1].momentum.trend.trend = "BULLISH") =>
        ui[1].momentum.description =
            BullishRationale(ui[1].momentum.trend, "Fresh bullish crossover - Strong momentum")

C13_FreshShownWithoutCrossover ==
    /\ ui # <<>> /\ ui[1].momentum.trend.trend = "BULLISH"
    /\ ui[1].momentum.trend.lastCrossover = <<>>
    /\ ui[1].momentum.description = "Fresh bullish crossover - Strong momentum"

\* the window of first differences calculateRSI looks at
RsiWindow == SliceLast(Changes(indIn.prices), indIn.period)

RsiComputed == pc = "done" /\ indIn.fn = "calculateRSI" /\ Len(indIn.prices) >= indIn.period + 1

\* C14: for every price sequence with at least period + 1 values, calculateRSI returns
\* a value r with 0 <= r <= 100.
C14_RsiInRange ==
    RsiComputed => /\ indOut[2] > 0
                   /\ RatLe(<< 0, 1 >>, indOut) /\ RatLe(indOut, << 100, 1 >>)

C14_RsiStrictlyInside ==
    /\ RsiComputed /\ indIn.period = RSI_PERIOD
    /\ ~RatLe(indOut, << 0, 1 >>) /\ ~RatLe(<< 100, 1 >>, indOut)

\* C15: over the last `period` first differences of a sequence longer than period,
\* calculateRSI returns exactly 100 whenever the window holds no negative difference,
\* and exactly 0 whenever it holds a negative difference and no positive one.
C15_RsiExtremes ==
    RsiComputed =>
        LET negative == \E i \in 1..Len(RsiWindow) : RsiWindow[i] < 0
            positive == \E i \in 1..Len(RsiWindow) : RsiWindow[i] > 0
        IN /\ ~negative => indOut = << 100, 1 >>
           /\ (negative /\ ~positive) => (indOut[1] = 0 /\ indOut[2] > 0)

C15_FallingWindowGivesZero ==
    /\ RsiComputed /\ indIn.period = RSI_PERIOD
    /\ \A i \in 1..Len(RsiWindow) : RsiWindow[i] <= 0
    /\ \E i \in 1..Len(RsiWindow) : RsiWindow[i] < 0
    /\ \E i \in 1..Len(Changes(indIn.prices)) : Changes(indIn.prices)[i] = 0
    /\ indOut[1] = 0

\* C16: calculateRSI returns the fallback RSI whenever len(prices) < period + 1;
\* calculate200DMA returns the fallback baseline whenever len(prices) < 200 and
\* otherwise the mean of the last 200 prices; every call returns, the empty sequence
\* included.
C16_InsufficientDataFallsBack ==
    pc = "done" =>
        /\ indOut # <<>> /\ indOut[2] > 0
        /\ (indIn.fn = "calculateRSI" /\ Len(indIn.prices) < indIn.period + 1) =>
              RatEq(indOut, RatOfHundredths(FALLBACK_DATA.rsi))
        /\ (indIn.fn = "calculate200DMA" /\ Len(indIn.prices) < DMA_WINDOW) =>
              RatEq(indOut, RatOfHundredths(FALLBACK_DATA.dma_200))
        /\ (indIn.fn = "calculate200DMA" /\ Len(indIn.prices) >= DMA_WINDOW) =>
              RatEq(indOut, << SumRange(indIn.prices, Len(indIn.prices) - DMA_WINDOW + 1, Len(indIn.prices)),
                               DMA_WINDOW >>)

C16_EmptySequenceFallsBack ==
    /\ pc = "done" /\ indIn.fn = "calculate200DMA" /\ indIn.prices = <<>>
    /\ RatEq(indOut, RatOfHundredths(FALLBACK_DATA.dma_200))

QuoteFields == { "current_price", "previous_close", "open", "high_52w", "low_52w",
                 "all_time_high", "pe_ratio", "rsi", "dma_200", "last_updated" }

\* C17 as claimed: after any fetch outcome the Quote Snapshot in this.data has every
\* field populated with a defined finite value.
C17_SnapshotFullyPopulated ==
    pc = "done" =>
        /\ data # <<>>
        /\ \A f \in QuoteFields : f \in DOMAIN data[1] /\ Finite(data[1][f])

\* C17 as the code behaves: a failed fetch and a payload that cannot be read give the
\* fallback snapshot, and the fields the trackers fill themselves are always finite;
\* the fields copied from the payload are whatever the payload holds.
C17_OnlyOwnFieldsPopulated ==
    pc = "done" =>
        /\ data # <<>>
        /\ \A f \in QuoteFields : f \in DOMAIN data[1]
        /\ \A f \in { "all_time_high", "pe_ratio", "rsi", "dma_200", "last_updated" } : Finite(data[1][f])
        /\ (payload.status # "ok" \/ payload.result = <<>>) =>
              \A f \in QuoteFields \ {"last_updated"} : data[1][f] = FALLBACK_DATA[f]
        /\ (payload.tracker = "ema" /\ payload.status = "ok" /\ payload.result # <<>>
            /\ payload.result[1].meta # <<>>) =>
              /\ data[1].high_52w = payload.result[1].meta[1].fiftyTwoWeekHigh
              /\ data[1].low_52w = payload.result[1].meta[1].fiftyTwoWeekLow

C17_HighMissingInSnapshot ==
    /\ pc = "done" /\ payload.tracker = "ema"
    /\ data[1].current_price = FALLBACK_DATA.current_price
    /\ data[1].high_52w = Undefined

\* reading field f of an object: a missing field reads as undefined
ReadField(o, f) == IF f \in DOMAIN o THEN o[f] ELSE Undefined

\* the second page has run loadCachedData and nothing after it
Loaded == pc = "fetching" /\ cycles = 2 /\ pending = { "quote", "bars" }

\* the entry under key passes the tests of loadCachedData at the present clock
FreshEntry(key) ==
    /\ storage[key] # <<>>
    /\ storage[key][1].version = "2.0"
    /\ clock - storage[key][1].timestamp < Window(key)

\* a and b read the same: every field of a quote, and the whole of other values
SameReads(key, a, b) ==
    IF key = "nifty_current"
    THEN /\ Len(a) = Len(b)
         /\ \A i \in DOMAIN a : \A f \in QuoteFields : ReadField(a[i], f) = ReadField(b[i], f)
    ELSE a = b

\* C18: loadCachedData adopts an entry exactly when its version is '2.0' and its age
\* is below the window of its kind (quote 10 min, bars 1 h, EMA bundle 1 h), and the
\* adopted value equals the value that was passed to cacheData.
C18_AdoptedEqualsCached ==
    Loaded =>
        \A key \in CacheKeys :
            Held(key) = IF FreshEntry(key) THEN storage[key][1].passed ELSE Blank(key)

\* C18, as the code behaves: an entry is adopted exactly when it is fresh and of
\* version '2.0'; the adopted value reads the same as the cached one on every field,
\* and is equal to it when the cached value held no undefined field.
C18_AdoptedReadsAsCached ==
    Loaded =>
        \A key \in CacheKeys :
            IF FreshEntry(key)
            THEN /\ SameReads(key, Held(key), storage[key][1].passed)
                 /\ Held(key) # Blank(key)
                 /\ (key = "nifty_current" /\ Held(key) # storage[key][1].passed)
                        => \E f \in QuoteFields : storage[key][1].passed[1][f] = Undefined
            ELSE Held(key) = Blank(key)

\* a fresh quote entry was adopted and is not the object that was cached
C18_AdoptedQuoteLostField ==
    /\ Loaded
    /\ FreshEntry("nifty_current")
    /\ data # storage.nifty_current[1].passed
    /\ "high_52w" \notin DOMAIN data[1]

\* the quote fetch of the running cycle settles without an answer
QuoteFetchFails == pc = "fetching" /\ net = "down" /\ "quote" \in pending /\ "quote" \notin pending'

\* the bar fetch of the running cycle settles without bars it can process
BarFetchFails ==
    /\ pc = "fetching" /\ net \in { "down", "malformed" }
    /\ "bars" \in pending /\ "bars" \notin pending'

\* C19: when a refresh cannot obtain fresh data and previously obtained data exists
\* (held in memory from an earlier refresh, or cached), the tracker keeps using it
\* rather than replacing it with the hard-coded fallback constants.
C19_KeepsPreviousData ==
    [][ /\ (QuoteFetchFails /\ data # <<>>) => data' = data
        /\ (BarFetchFails /\ historicalData # <<>>) => historicalData' = historicalData ]_vars

\* C19, as the code behaves: a failed fetch always ends with the fallback constants,
\* whatever is held or cached.
C19_FailedFetchInstallsFallback ==
    [][ /\ QuoteFetchFails => data' = << useFallbackData(today) >>
        /\ BarFetchFails => historicalData' = FALLBACK_HISTORICAL ]_vars

\* the second cycle failed after the first one had obtained and cached a quote and
\* bars: the tracker holds the fallback constants
C19_FallbackReplacedObtainedData ==
    /\ cycles = 2 /\ net = "down" /\ pending = {}
    /\ storage.nifty_current # <<>> /\ storage.nifty_historical # <<>>
    /\ data = << useFallbackData(today) >> /\ data # storage.nifty_current[1].passed
    /\ historicalData = FALLBACK_HISTORICAL
    /\ historicalData # storage.nifty_historical[1].passed

\* a tracker that has gone through its init()
Running == pc \in { "idle", "threw", "basic-idle" }

\* C20: while the application runs and is online, a periodic refresh is scheduled whose
\* period matches the present trading-hours status: 30 s within trading hours, 5 min
\* otherwise; a change of the status reschedules the timer with the other period.
C20_PeriodMatchesTradingHours ==
    (Running /\ isOnline) => refreshInterval = setupAutoRefresh(clock)

\* C20, as the code behaves: the passage of time never touches the timer, and a timer
\* that is set gets the period of the trading-hours status at that moment.
C20_PeriodFixedWhenSet ==
    [][ /\ clock' # clock => refreshInterval' = refreshInterval
        /\ (refreshInterval' # refreshInterval /\ refreshInterval' # 0)
              => refreshInterval' = setupAutoRefresh(clock) ]_vars

\* the EMA tracker, online and visible, still refreshes every 30 s after the close
C20_ShortPeriodAfterClose ==
    /\ pc = "idle" /\ isOnline /\ visibilityState = "visible"
    /\ ~isMarketHours(clock)
    /\ refreshInterval = MARKET_PERIOD

\* how many interval timers are live
LiveTimers == timers[MARKET_PERIOD] + timers[AFTER_HOURS_PERIOD]

\* C21: after any sequence of init, online, offline and visibility events at most one
\* refresh timer is live and refreshInterval holds its handle: refreshInterval is null
\* exactly when no timer is live (setupAutoRefresh cancels the previous timer first).
C21_AtMostOneTimer ==
    /\ LiveTimers <= 1
    /\ refreshInterval = 0 <=> LiveTimers = 0
    /\ refreshInterval # 0 => timers[refreshInterval] = 1

\* init() of the EMA tracker has set the timer twice (checkOnlineStatus, then
\* setupAutoRefresh) and one timer is live
C21_TimerReplacedDuringInit ==
    /\ pc = "idle" /\ cycles = 1 /\ isOnline /\ visibilityState = "visible"
    /\ refreshInterval # 0 /\ LiveTimers = 1

\* emaData as calculateEMAs and detectCrossovers derive it from the bars hist alone
Derived(fresh, hist) == detectCrossovers(fresh, hist)
Consistent(ema, hist) ==
    ema = Derived([ ema20 |-> calculateEMA(Closes(hist), EMA_PERIOD_20),
                    ema50 |-> calculateEMA(Closes(hist), EMA_PERIOD_50),
                    crossovers |-> <<>> ], hist)

\* a step in which updateUI() runs: the end of a cycle, or the callback of the timer
CyclePublishes == pc = "fetching" /\ pc' = "idle"
TimerPublishes == pc' = pc /\ pending' = pending /\ cycles' = cycles

\* C22: under every interleaving of init, manualRefresh and timer ticks, when updateUI
\* runs emaData.ema20 and ema50 are the EMAs of the current historicalData and
\* emaData.crossovers is the crossover list of those EMAs.
C22_PublishesConsistentResult ==
    [][ (CyclePublishes \/ TimerPublishes) => Consistent(emaData', historicalData') ]_vars
\* C22, as the code behaves: the updateUI() at the end of a cycle whose history has at
\* least 50 bars shows the EMAs and crossovers of that history; nothing orders the
\* updateUI() of the timer's callback against a running cycle.
C22_CyclePublishesItsOwnResult ==
    [][ (CyclePublishes /\ EMAsComputed(historicalData))
            => Consistent(emaData', historicalData') ]_vars

\* during init() the bars have arrived, the quote is still out, and the timer's
\* callback has published: the page shows a result made of no EMAs at all
C22_TimerPublishedMidCycle ==
    /\ pc = "fetching" /\ cycles = 1 /\ pending = { "quote" }
    /\ EMAsComputed(historicalData) /\ emaData = NoEma
    /\ ui # <<>>


\* the call in progress is one of fn
Calling(fn) == called' # <<>> /\ called'[1].fn = fn

\* C23: calculateInvestmentSignals, getCurrentEMATrend, calculateCorrection, calculateEMA and
\* the description helpers leave data, historicalData, emaData, isOnline and
\* refreshInterval as they were, in every state of a running page
C23_ReadingMethodsLeaveState ==
    [][ (\E fn \in ReadingMethods : Calling(fn))
            => /\ data' = data /\ historicalData' = historicalData /\ emaData' = emaData
               /\ isOnline' = isOnline /\ refreshInterval' = refreshInterval ]_vars

\* the trend resolver has returned the last of several crossovers of a finished cycle
C23_TrendReadFromCrossovers ==
    /\ called # <<>> /\ called[1].fn = "getCurrentEMATrend"
    /\ pc = "idle" /\ Len(emaData.crossovers) > 0
    /\ called[1].result[1].lastCrossover = << emaData.crossovers[Len(emaData.crossovers)] >>


\* both runs have finished init() on a source that was unavailable in the same way
BothRunsFellBack ==
    /\ earlier # <<>> /\ pc \in { "idle", "threw" }
    /\ net = earlier[1].net /\ net \in { "down", "malformed" }

\* C24 (as claimed): two runs at the same time with the source unavailable in the same
\* way substitute the same fallback bars and so end with the same EMA data and the
\* same Signal Result
C24_SameFallbackInBothRuns ==
    BothRunsFellBack
        => /\ historicalData = earlier[1].historicalData
           /\ emaData = earlier[1].emaData
           /\ ui = earlier[1].ui

Dates(hist) == [ i \in 1..Len(hist) |-> hist[i].date ]

\* C24 (as the code behaves): the two runs substitute bars of the same dates and the
\* same fallback quote, and end with the same bars, EMA data and Signal Result
\* whenever generateFallbackHistoricalData() drew the same history in both
C24_SameDrawSameResult ==
    BothRunsFellBack
        => /\ Dates(historicalData) = Dates(earlier[1].historicalData)
           /\ net = "down" => data = earlier[1].data
           /\ FALLBACK_HISTORICAL = earlier[1].FALLBACK_HISTORICAL
                 => /\ historicalData = earlier[1].historicalData
                    /\ emaData = earlier[1].emaData
                    /\ ui = earlier[1].ui

\* two runs on an unavailable source that drew different histories and show
\* different Signal Results
C24_RunsDifferByDraw ==
    /\ BothRunsFellBack /\ net = "down" /\ pc = "idle"
    /\ FALLBACK_HISTORICAL # earlier[1].FALLBACK_HISTORICAL
    /\ historicalData = FALLBACK_HISTORICAL
    /\ earlier[1].ui # <<>> /\ ui # <<>> /\ ui # earlier[1].ui


\* the last fetch event was for the chart request / for a static asset
APIEvent == response # <<>> /\ response[1].request = "chart"
StaticEvent == response # <<>> /\ response[1].request \in RequestedAssets

\* the shape of the live source's payload
LiveShape(body) ==
    /\ Len(body.chart.result) >= 1
    /\ { "meta", "timestamp", "indicators" } \subseteq DOMAIN body.chart.result[1]
    /\ Len(body.chart.result[1].indicators.quote) >= 1
    /\ Finite(processNiftyData(body.chart.result[1].meta, 0).current_price)

\* C25: handleAPIRequest always resolves: to the network response when the network
\* answers ok; otherwise to the cached response, marked stale exactly when it is
\* older than 5 minutes; otherwise to a status-200 fallback of the live shape
C25_APIRequestAlwaysAnswered ==
    APIEvent =>
        LET event == response[1]
            result == event.result
        IN /\ result.source # "rejected"
           /\ event.answer = "ok" => result = NetworkResponse("ok", "chart")
           /\ (event.answer # "ok" /\ event.held # <<>>)
                 => /\ result.source = "cache"
                    /\ result.body = event.held[1].body /\ result.status = event.held[1].status
                    /\ result.stale <=> event.at - event.held[1].date[1] > CACHE_DURATION_API
           /\ (event.answer # "ok" /\ event.held = <<>>)
                 => /\ result.source = "fallback" /\ result.status = 200
                    /\ LiveShape(result.body)

\* the network rejected while the API cache held a copy exactly 5 minutes old:
\* the copy is returned and not marked stale
C25_CachedCopyAtFiveMinutes ==
    /\ APIEvent /\ response[1].answer = "reject" /\ response[1].held # <<>>
    /\ response[1].at - response[1].held[1].date[1] = CACHE_DURATION_API
    /\ response[1].result.source = "cache" /\ ~response[1].result.stale

\* the static cache held a copy of the asset and the fetch was made and failed
FetchFailedOnCachedAsset ==
    /\ StaticEvent /\ response[1].held # <<>>
    /\ Expired(response[1].held[1], response[1].at, CACHE_DURATION_STATIC)
    /\ response[1].answer # "ok"

\* C30 (as claimed): whenever the static cache holds the asset and the fetch rejects
\* or answers non-ok, handleStaticAsset returns the cached copy
C30_CachedCopyWhenFetchFails ==
    FetchFailedOnCachedAsset
        => /\ response[1].result.source = "cache"
           /\ response[1].result.body = response[1].held[1].body

\* C30 (as the code behaves): the cached copy is returned while it is fresh and when
\* the fetch answers non-ok; when the fetch rejects, the catch block answers with the
\* offline page for a document and with a 503 response for anything else
C30_CachedCopyUnlessFetchRejects ==
    (StaticEvent /\ response[1].held # <<>>)
        => LET event == response[1]
           IN /\ ~Expired(event.held[1], event.at, CACHE_DURATION_STATIC)
                    => event.result = Matched(event.held[1])
              /\ (FetchFailedOnCachedAsset /\ event.answer = "error")
                    => event.result = Matched(event.held[1])
              /\ (FetchFailedOnCachedAsset /\ event.answer = "reject")
                    => event.result = StaticAssetFailed(event.request)

\* a precached script requested while offline is answered with 503
C30_PrecachedAssetUnavailable ==
    /\ StaticEvent /\ response[1].request = "./app.js" /\ response[1].answer = "reject"
    /\ response[1].held = << NetworkResponse("ok", "./app.js") >>
    /\ response[1].result.status = 503


\* the Trend State and the last crossover after a cycle that ended normally on at
\* least 50 bars and left a crossover list that is not empty
TrendShown == getCurrentEMATrend(emaData, today).trend
LastCross == emaData.crossovers[Len(emaData.crossovers)]
CrossoversListed == Fresh /\ Len(emaData.crossovers) > 0

\* the bar (counted from 0) the event is dated as
BarOf(event) == CHOOSE b \in 0..(Len(historicalData) - 1) : historicalData[b + 1].date = event.date

\* the bars after the event's bar at which both EMAs exist
LaterBars(event) == { b \in (EMA_PERIOD_50 - 1)..(Len(historicalData) - 1) : b > BarOf(event) }

\* C26 (as claimed): after a completed cycle on at least 50 bars with a crossover list
\* that is not empty, a BULLISH trend has a last crossover of type BULLISH_CROSS and
\* a BEARISH trend one of type BEARISH_CROSS; and a last BULLISH_CROSS (BEARISH_CROSS)
\* with no later bar having fast <= slow (fast >= slow) has trend BULLISH (BEARISH)
C26_TrendAgreesWithLastCrossover ==
    CrossoversListed
        => /\ TrendShown = "BULLISH" => LastCross.type = "BULLISH_CROSS"
           /\ TrendShown = "BEARISH" => LastCross.type = "BEARISH_CROSS"
           /\ (LastCross.type = "BULLISH_CROSS"
                 /\ \A b \in LaterBars(LastCross) : NumCmp(FastAt(b), SlowAt(b)) > 0)
                => TrendShown = "BULLISH"
           /\ (LastCross.type = "BEARISH_CROSS"
                 /\ \A b \in LaterBars(LastCross) : NumCmp(FastAt(b), SlowAt(b)) < 0)
                => TrendShown = "BEARISH"

\* C26 (as the code behaves): the trend is that of the EMA values of the last bar,
\* whatever the crossover list says, so only the second half holds: a last crossover
\* followed by no bar of the opposite or equal order has the trend of its type
C26_TrendIsOrderAtLastBar ==
    CrossoversListed
        => /\ TrendShown = TrendOf(FastAt(Len(historicalData) - 1), SlowAt(Len(historicalData) - 1))
           /\ LaterBars(LastCross) # {}
           /\ (LastCross.type = "BULLISH_CROSS"
                 /\ \A b \in LaterBars(LastCross) : NumCmp(FastAt(b), SlowAt(b)) > 0)
                => TrendShown = "BULLISH"
           /\ (LastCross.type = "BEARISH_CROSS"
                 /\ \A b \in LaterBars(LastCross) : NumCmp(FastAt(b), SlowAt(b)) < 0)
                => TrendShown = "BEARISH"

\* a finished cycle whose trend is BULLISH while the last crossover listed is a
\* BEARISH_CROSS
C26_BullishAfterBearishCross ==
    CrossoversListed /\ TrendShown = "BULLISH" /\ LastCross.type = "BEARISH_CROSS"


\* the page shows a Signal Result whose Trend State is UNKNOWN
UnknownTrendShown == ui # <<>> /\ ui[1].momentum.trend.trend = "UNKNOWN"

\* C27 (as claimed): with the Trend State UNKNOWN the momentum condition
\* priceAboveEMAs is not met, whatever the current price
C27_UnknownTrendPriceNotAbove ==
    UnknownTrendShown => ui[1].momentum.conditions.priceAboveEMAs = "false"

\* C27 (as the code behaves): with the Trend State UNKNOWN both EMA values are null,
\* the comparisons read null as 0, and priceAboveEMAs is met exactly when the
\* current price is positive; the momentum signal is WAIT
C27_UnknownTrendPriceAboveZero ==
    UnknownTrendShown
        => /\ ui[1].momentum.trend.ema20 = NoNum /\ ui[1].momentum.trend.ema50 = NoNum
           /\ ui[1].momentum.conditions.priceAboveEMAs = JsBool(data[1].current_price > 0)
           /\ ui[1].momentum.signal = "WAIT"

\* a page without EMA values that reports the price as above both EMAs
C27_PriceAboveMissingEMAs ==
    /\ UnknownTrendShown /\ emaData.ema20 = <<>> /\ emaData.ema50 = <<>>
    /\ ui[1].momentum.conditions.priceAboveEMAs = "true"


\* the page runs the basic tracker
BasicTracker == pc \in { "basic-new", "basic-idle" }

\* C28 (as claimed): in both trackers no refresh timer is held while the tracker is
\* offline
C28_NoTimerWhileOffline == ~isOnline => refreshInterval = 0

\* C28 (as the code behaves): the basic tracker never holds a timer while offline; in
\* both trackers the offline event leaves no timer
C28_OfflineEventClearsTimer ==
    /\ [](BasicTracker /\ ~isOnline => refreshInterval = 0 /\ LiveTimers = 0)
    /\ [][ (isOnline /\ ~isOnline') => (refreshInterval' = 0 /\ LiveTimers' = 0) ]_vars

\* the EMA tracker has finished init() offline and holds a refresh timer
C28_TimerSetOffline ==
    /\ pc = "idle" /\ cycles = 1 /\ ~isOnline
    /\ refreshInterval # 0 /\ timers[refreshInterval] = 1


\* the quote is the hard-coded fallback quote of the tracker that cached it
IsFallbackQuote(q) == q = useFallbackData(q.last_updated)
IsBasicFallbackQuote(q) == q = BasicUseFallbackData(q.last_updated)

\* C29 (as claimed): no cache entry holds the fallback quote or the generated
\* fallback bar history
C29_CacheHoldsNoFallback ==
    /\ storage.nifty_current # <<>> => ~IsFallbackQuote(storage.nifty_current[1].passed[1])
    /\ storage.nifty_historical # <<>> => storage.nifty_historical[1].passed # FALLBACK_HISTORICAL
    /\ storage.nifty_data # <<>> => ~IsBasicFallbackQuote(storage.nifty_data[1])

\* C29 (as the code behaves): a fetch that fails writes nothing, and a fetch that is
\* answered caches what the tracker holds after processing, which is the fallback
\* history when the payload was malformed
C29_AnsweredFetchCachesWhatIsHeld ==
    [][ /\ storage'.nifty_current # storage.nifty_current
            => (net # "down" /\ storage'.nifty_current[1].passed = data')
        /\ storage'.nifty_historical # storage.nifty_historical
            => /\ net # "down" /\ storage'.nifty_historical[1].passed = historicalData'
               /\ historicalData' = FALLBACK_HISTORICAL <=> net = "malformed" ]_vars

\* the cache holds the generated fallback history after a malformed payload
C29_FallbackHistoryCached ==
    /\ pc = "idle" /\ net = "malformed"
    /\ storage.nifty_historical # <<>>
    /\ storage.nifty_historical[1].passed = FALLBACK_HISTORICAL
    /\ storage.nifty_historical[1].data = FALLBACK_HISTORICAL

====
